---- MODULE Spec2Model ----
(***************************************************************************)
(* A model of the FTP data reader: the transfer client of                  *)
(* services/FTPService.ts (retry engine, connection handles, metrics), the *)
(* severity threshold and the queue of the logger, the stored credentials, *)
(* and the fetch cycle of components/DataDisplay.tsx.                      *)
(*                                                                         *)
(* An asynchronous function is cut at its awaits: the code that runs from  *)
(* one await to the next is one atomic action, and the value an awaited    *)
(* external call settles with (transport, file system, timers) is chosen   *)
(* by \E.                                                                  *)
(***************************************************************************)
EXTENDS Integers, Sequences, FiniteSets, TLC

VARIABLES
    tier,               \* environment.ts: __DEV__ selects the configuration
    libAvailable,       \* FTPService.ts: FTPClient is defined (require succeeded)
    calls,              \* the asynchronous calls made on one FTPService
    ftpClient,          \* FTPService.ftpClient
    ftpConfig,          \* FTPService.config (an EndpointConfig id)
    connectionMetrics,  \* FTPService.connectionMetrics
    open,               \* handles connected and not yet disconnected
    discCalled,         \* handles on which client.disconnect() was called
    discPending,        \* handles whose un-awaited disconnect is in flight
    emitted,            \* log events that passed LoggerService.shouldLog
    ui,                 \* the DataDisplay component (state, effects, cycles)
    applied,            \* one function applied on its own: inputs and outcome
    logger              \* LoggerService: the queue, log calls and flushes in flight

ftpVars == <<calls, ftpClient, ftpConfig, connectionMetrics, open, discCalled,
             discPending, emitted>>
envVars == <<tier, libAvailable>>
vars == <<tier, libAvailable, calls, ftpClient, ftpConfig, connectionMetrics,
          open, discCalled, discPending, emitted, ui, applied, logger>>

----------------------------------------------------------------------------
(* Bounds of the model *)

\* asynchronous calls made on the FTPService instance over a run
MaxCalls == 2
\* endpoint configurations updateConfig may install
NumConfigs == 2

\* the longest header and the most data rows of the grids
\* processDataForCharts is applied to on its own
MaxHeader == 6
MaxDataRows == 2

\* the largest maxRetries retryOperation is applied with on its own
MaxAttempts == 7
\* log calls in flight at once, events logged over a run, and the events
\* already queued (accepted and not flushed) when a run starts
MaxLogCalls == 2
\* the readings of Date.now() a download may take
MaxMillis == 2
MaxEvents == 3
\* the log events caused by the logger's own console output that are
\* followed after one log call
MaxChain == 2
Preloaded == 99

Calls == 1..MaxCalls
Configs == 1..NumConfigs

----------------------------------------------------------------------------
(* config/environment.ts *)

Tiers == {"development", "production"}

\* developmentConfig.app.maxFileSize / productionConfig.app.maxFileSize
maxFileSize(t) == IF t = "production" THEN 50 * 1024 * 1024 ELSE 10 * 1024 * 1024

\* developmentConfig.ftp.retryAttempts / productionConfig.ftp.retryAttempts
retryAttempts(t) == IF t = "production" THEN 5 ELSE 3

\* developmentConfig.ftp.connectionTimeout / productionConfig.ftp.connectionTimeout
ftpConnectionTimeout(t) == IF t = "production" THEN 45000 ELSE 30000

\* developmentConfig.logging.logLevel / productionConfig.logging.logLevel
logLevel(t) == IF t = "production" THEN "error" ELSE "debug"

----------------------------------------------------------------------------
(* services/Logger.ts: the severity threshold *)

\* levels.indexOf(level) for levels = ['debug', 'info', 'warn', 'error']
levelIndex(level) ==
    CASE level = "debug" -> 0
      [] level = "info" -> 1
      [] level = "warn" -> 2
      [] level = "error" -> 3

shouldLog(t, level) == levelIndex(level) >= levelIndex(logLevel(t))

\* The logger calls that flag a result as synthetic (mock) data.
FlagsSynthetic(msg) ==
    msg \in {"FTP library not available, using mock download",
             "Using mock FTP download for development/fallback",
             "Generating mock XLS data for demonstration",
             "Mock file created successfully"}

\* A logger call: its severity and whether its message flags synthetic data.
Ev(level, msg) == [level |-> level, synthetic |-> FlagsSynthetic(msg)]

\* The events of a set of logger calls made by call c that pass the threshold
\* (LoggerService.log returns early for the others).
Logged(c, events) ==
    {[call |-> c, level |-> e.level, synthetic |-> e.synthetic] :
        e \in {x \in events : shouldLog(tier, x.level)}}

----------------------------------------------------------------------------
(* services/FTPService.ts *)

\* constructor: config.app?.retryAttempts || 3, where config is the FTPConfig
\* parameter (which has no app field)
maxRetries == 3

\* constructor: config.app?.connectionTimeout || 30000, of the same parameter;
\* initializeFTPClient passes it to connect as timeout (line 65)
connectionTimeout == 30000

Ops == {"testConnection", "downloadFile", "listFiles", "uploadFile"}

NoHandle == 0
\* the handle created by attempt a of call c (new FTPClient())
Handle(c, a) == (c - 1) * maxRetries + a
Handles == {Handle(c, a) : c \in Calls, a \in 1..maxRetries}

\* what FileSystem.getInfoAsync can report for a path
FileInfos(t) ==
    {[exists |-> FALSE, size |-> 0]} \cup
    {[exists |-> TRUE, size |-> s] : s \in {0, maxFileSize(t), maxFileSize(t) + 1}}

\* developmentConfig.app.supportedFileTypes / productionConfig.app.supportedFileTypes
supportedFileTypes(t) ==
    {<<".", "x", "l", "s">>, <<".", "x", "l", "s", "x">>, <<".", "c", "s", "v">>}
    \cup (IF t = "production" THEN {<<".", "t", "s", "v">>} ELSE {})

\* String.prototype.toLowerCase on one character (the letters that occur)
toLowerCase(ch) ==
    CASE ch = "X" -> "x" [] ch = "L" -> "l" [] ch = "S" -> "s"
      [] ch = "T" -> "t" [] OTHER -> ch

\* filename.toLowerCase(), a filename being its sequence of characters
LowerCase(name) == [i \in 1..Len(name) |-> toLowerCase(name[i])]

\* name.split('.').pop(): the characters after the last dot, the whole name
\* when it has no dot
LastSegment(name) ==
    LET dots == {i \in 1..Len(name) : name[i] = "."}
        from == IF dots = {} THEN 0 ELSE CHOOSE i \in dots : \A j \in dots : j <= i
    IN SubSeq(name, from + 1, Len(name))

\* validateFile, lines 185-186: the extension is non-empty and is not in
\* supportedFileTypes
UnsupportedExtension(t, name) ==
    LET extension == LastSegment(LowerCase(name))
    IN extension # <<>> /\ (<<".">> \o extension) \notin supportedFileTypes(t)

\* filenames an endpoint configuration may carry
Filenames ==
    {<<"a", ".", "x", "l", "s">>, <<"a", ".", "X", "L", "S", "X">>,
     <<"a", ".", "c", "s", "v">>, <<"a", ".", "t", "s", "v">>,
     <<"a", ".", "t", "x", "t">>, <<"a", ".", "x", "l", "s", ".", "b">>,
     <<"a">>, <<"a", ".">>}

\* downloadFile, lines 215-218: the name of the local file, from the reading
\* of Date.now() and this.config.filename.split('.').pop() || 'xlsx' (an
\* empty last segment is falsy)
fileExtension(name) ==
    IF LastSegment(name) # <<>> THEN LastSegment(name) ELSE <<"x", "l", "s", "x">>

localFileName(timestamp, name) ==
    [stem |-> "downloaded_", timestamp |-> timestamp, dot |-> ".",
     fileExtension |-> fileExtension(name)]

\* the filename of configuration cfg: 'data.xls' by default (line 481), a
\* text file in the others
ConfigFilename(cfg) ==
    IF cfg = 1 THEN <<"d", "a", "t", "a", ".", "x", "l", "s">>
    ELSE <<"d", "a", "t", "a", ".", "t", "x", "t">>

validateFileCeilingInclusive(t, info) ==
    IF ~info.exists THEN "Downloaded file does not exist"
    ELSE IF info.size = 0 THEN "Downloaded file is empty"
    ELSE IF info.size >= maxFileSize(t) THEN "File size exceeds maximum allowed size"
    ELSE "ok"

\* validateFile: the error it throws, or "ok"
validateFile(t, info) ==
    IF ~info.exists THEN "Downloaded file does not exist"
    ELSE IF info.size = 0 THEN "Downloaded file is empty"
    ELSE IF info.size > maxFileSize(t) THEN "File size exceeds maximum allowed size"
    ELSE "ok"

\* validateFile, lines 184-193: the logger calls of a validation that passed
validateFileLogs(t, name) ==
    (IF UnsupportedExtension(t, name) THEN {Ev("warn", "Unsupported file type")} ELSE {})
    \cup {Ev("debug", "File validation passed")}

\* retryOperation, line 101: the loop condition
LoopContinuesOffByOne(attempt) == attempt < maxRetries
LoopContinues(attempt) == attempt <= maxRetries

\* retryOperation, line 120: a backoff wait follows a failed attempt
WaitsBefore(attempt, max) == attempt < max
WaitsBeforeRetry(attempt) == WaitsBefore(attempt, maxRetries)

Min(a, b) == IF a < b THEN a ELSE b

backoffDelayUncapped(attempt) == 1000 * 2 ^ (attempt - 1)

\* retryOperation, line 121
backoffDelay(attempt) == Min(1000 * 2 ^ (attempt - 1), 10000)

\* The first await of one invocation of the wrapped operation.
FirstAwait(op) ==
    CASE op = "testConnection" -> IF libAvailable THEN "connect" ELSE "mock_delay"
      [] op = "downloadFile" -> IF libAvailable THEN "connect" ELSE "mock_delay"
      [] op = "listFiles" -> IF libAvailable THEN "connect" ELSE "mock_list"
      [] op = "uploadFile" -> IF libAvailable THEN "up_stat" ELSE "mock_delay"

\* The logger calls made from the loop head to the first await.
FirstLogs(op) ==
    {Ev("debug", "Attempting")} \cup
    (CASE op = "testConnection" ->
            {Ev("info", "Testing FTP connection")} \cup
            (IF libAvailable THEN {Ev("debug", "Initializing FTP client")}
             ELSE {Ev("info", "FTP library not available, using mock connection test")})
       [] op = "downloadFile" ->
            {Ev("info", "Starting file download")} \cup
            (IF libAvailable THEN {Ev("debug", "Initializing FTP client")}
             ELSE {Ev("info", "FTP library not available, using mock download"),
                   Ev("info", "Using mock FTP download for development/fallback")})
       [] op = "listFiles" ->
            {Ev("info", "Listing FTP directory files")} \cup
            (IF libAvailable THEN {Ev("debug", "Initializing FTP client")}
             ELSE {Ev("info", "FTP library not available, returning mock file list")})
       [] op = "uploadFile" ->
            {Ev("info", "Starting file upload")} \cup
            (IF libAvailable THEN {}
             ELSE {Ev("info", "FTP library not available, simulating upload")}))

\* A path returned by downloadFile: downloaded_<millis>.<ext> of an attempt,
\* or mock_downloaded_<millis>.xlsx
RealPath(c, a) == [kind |-> "real", call |-> c, attempt |-> a]
MockPath(c, a) == [kind |-> "mock", call |-> c, attempt |-> a]
\* any other value an operation resolves with (true, a list of names)
Value(kind, c, a) == [kind |-> kind, call |-> c, attempt |-> a]
NoResult == [kind |-> "none", call |-> 0, attempt |-> 0]

\* the local paths uploadFile is called with: one that exists, one that does not
LocalPaths == {"present", "absent"}

\* the argument a call of op can carry
Arguments(op) == IF op = "uploadFile" THEN LocalPaths ELSE {"none"}

\* A call on the service: the operation, where it is suspended, the attempt
\* counter of retryOperation, the attempt's client, and what each invocation
\* of the operation settled with so far (outcomes).
\* config: the EndpointConfig in effect when the attempt in flight started;
\* fetched: the one whose filename that attempt passed to client.downloadFile;
\* pushed: the success flags of the entries the latest attempt appended to
\* connectionMetrics
NoCall ==
    [op |-> "none", pc |-> "idle", attempt |-> 0, client |-> NoHandle,
     outcomes |-> <<>>, pending |-> "none", result |-> NoResult, error |-> "none",
     lastError |-> "none", size |-> 0, localPath |-> "none",
     config |-> 0, fetched |-> 0, pushed |-> <<>>]

\* A ConnectionMetrics entry (the durations are not modelled).
Metric(c, rec, success, size) ==
    [success |-> success, fileSize |-> size]

\* retryOperation, line 130: throw lastError || new Error(`... failed after
\* ${maxRetries} attempts`)
ThrownError(rec) ==
    IF rec.lastError # "none" THEN rec.lastError ELSE "failed after maxRetries attempts"

\* the errors whose message states how many attempts were made
CarriesAttemptCount(err) == err = "failed after maxRetries attempts"

\* retryOperation, lines 101-104: attempt++ and the loop condition; either the
\* next invocation runs to its first await, or the loop ends and lastError is
\* thrown (lines 127-130).
AfterIncrement(rec) ==
    IF LoopContinues(rec.attempt + 1)
    THEN [rec EXCEPT !.attempt = rec.attempt + 1, !.pc = FirstAwait(rec.op),
                     !.client = NoHandle, !.pending = "none", !.size = 0,
                     !.config = ftpConfig, !.fetched = 0, !.pushed = <<>>]
    ELSE [rec EXCEPT !.pc = "threw", !.error = ThrownError(rec),
                     !.client = NoHandle, !.pending = "none", !.size = 0,
                     !.config = 0, !.fetched = 0]

AfterIncrementLogs(rec) ==
    IF LoopContinues(rec.attempt + 1) THEN FirstLogs(rec.op)
    ELSE {Ev("error", "failed after maxRetries attempts")}

\* retryOperation, lines 111-124: the catch block of attempt rec.attempt
AfterFailure(rec, err) ==
    LET r == [rec EXCEPT !.lastError = err, !.outcomes = Append(@, "fail"),
                         !.client = NoHandle, !.pending = "none", !.size = 0,
                         !.config = 0, !.fetched = 0]
    IN IF WaitsBeforeRetry(rec.attempt) THEN [r EXCEPT !.pc = "backoff"]
       ELSE AfterIncrement(r)

AfterFailureLogs(rec) ==
    {Ev("warn", "failed on attempt")} \cup
    (IF WaitsBeforeRetry(rec.attempt) THEN {} ELSE AfterIncrementLogs(rec))

\* retryOperation, lines 104-110: the operation resolved with res
AfterSuccess(rec, res) ==
    [rec EXCEPT !.pc = "returned", !.result = res, !.outcomes = Append(@, "ok"),
                !.client = NoHandle, !.pending = "none", !.size = 0,
                !.config = 0, !.fetched = 0]

AfterSuccessLogs(rec) ==
    IF rec.attempt > 1 THEN {Ev("info", "succeeded on attempt")} ELSE {}

\* The operation of call c, whose record has become rec, rejects with err,
\* having made the logger calls logs.
FailFrom(c, rec, err, logs) ==
    /\ calls' = [calls EXCEPT ![c] = AfterFailure(rec, err)]
    /\ emitted' = emitted \cup Logged(c, logs \cup AfterFailureLogs(rec))

Fail(c, err, logs) == FailFrom(c, calls[c], err, logs)

\* downloadFile, lines 235 and 254: this.connectionMetrics.push(...)
Push(c, success, size) ==
    connectionMetrics' = Append(connectionMetrics, Metric(c, calls[c], success, size))

WithPushed(rec, success) == [rec EXCEPT !.pushed = Append(@, success)]

\* The operation of call c resolves with res.
Succeed(c, res, logs) ==
    /\ calls' = [calls EXCEPT ![c] = AfterSuccess(calls[c], res)]
    /\ emitted' = emitted \cup Logged(c, logs \cup AfterSuccessLogs(calls[c]))

\* disconnectClient, lines 156-161: client.disconnect() is called and awaited
\* in pc "finally_disc" (downloadFile, listFiles, uploadFile: the finally block)
EnterFinallyFrom(c, rec, pending, res, logs) ==
    /\ calls' = [calls EXCEPT ![c] = [rec EXCEPT !.pc = "finally_disc",
                                                 !.pending = pending,
                                                 !.result = res]]
    /\ discCalled' = discCalled \cup {rec.client}
    /\ emitted' = emitted \cup Logged(c, logs)

EnterFinally(c, pending, res, logs) == EnterFinallyFrom(c, calls[c], pending, res, logs)

----------------------------------------------------------------------------
(* The public operations, cut at their awaits *)

\* A caller invokes testConnection, downloadFile, listFiles or uploadFile:
\* retryOperation runs the first invocation to its first await.
StartCall(c, op, path) ==
    /\ calls[c].pc = "idle"
    /\ \A d \in Calls : d < c => calls[d].pc # "idle"
    /\ path \in Arguments(op)
    /\ calls' = [calls EXCEPT ![c] =
                    [NoCall EXCEPT !.op = op, !.attempt = 1, !.pc = FirstAwait(op),
                                   !.localPath = path, !.config = ftpConfig]]
    /\ emitted' = emitted \cup Logged(c, FirstLogs(op))
    /\ UNCHANGED <<ftpClient, ftpConfig, connectionMetrics, open, discCalled,
                   discPending>>
    /\ UNCHANGED <<tier, libAvailable, ui, applied, logger>>

\* The state an operation is in right after initializeFTPClient returned.
AfterConnect(op) ==
    CASE op = "testConnection" -> "tc_list"
      [] op = "downloadFile" -> "dl_get"
      [] op = "listFiles" -> "ls_list"
      [] op = "uploadFile" -> "up_put"

\* downloadFile, line 226: the filename passed to client.downloadFile is
\* read from this.config when the connect has settled
Fetched(rec) == ftpConfig

\* initializeFTPClient, lines 73-82: client.connect settles with success
ConnectOk(c) ==
    /\ calls[c].pc = "connect"
    /\ LET h == Handle(c, calls[c].attempt) IN
        /\ open' = open \cup {h}
        /\ ftpClient' = h
        /\ calls' = [calls EXCEPT ![c].client = h, ![c].pc = AfterConnect(calls[c].op),
                                  ![c].fetched = IF calls[c].op = "downloadFile"
                                                 THEN Fetched(calls[c]) ELSE 0]
    /\ emitted' = emitted \cup Logged(c,
            {Ev("info", "FTP client connected successfully")} \cup
            (IF calls[c].op = "downloadFile" THEN {Ev("debug", "Downloading file")}
             ELSE {}))
    /\ UNCHANGED <<ftpConfig, connectionMetrics, discCalled, discPending>>
    /\ UNCHANGED <<tier, libAvailable, ui, applied, logger>>

\* initializeFTPClient, lines 83-91: client.connect fails; downloadFile's catch
\* (lines 249-268) records a failed metric, and its finally finds client null
ConnectFail(c) ==
    /\ calls[c].pc = "connect"
    /\ IF calls[c].op = "downloadFile"
       THEN /\ Push(c, FALSE, 0)
            /\ FailFrom(c, WithPushed(calls[c], FALSE), "connect failed",
                        {Ev("error", "Failed to initialize FTP client"),
                         Ev("error", "File download failed")})
       ELSE /\ UNCHANGED connectionMetrics
            /\ Fail(c, "connect failed", {Ev("error", "Failed to initialize FTP client")})
    /\ UNCHANGED <<ftpClient, ftpConfig, open, discCalled, discPending>>
    /\ UNCHANGED <<tier, libAvailable, ui, applied, logger>>

\* testConnection, lines 146-149: client.list('/') resolves, disconnectClient
\* is called
TestListOk(c) ==
    /\ calls[c].pc = "tc_list"
    /\ calls' = [calls EXCEPT ![c].pc = "tc_disc"]
    /\ discCalled' = discCalled \cup {calls[c].client}
    /\ UNCHANGED <<ftpClient, ftpConfig, connectionMetrics, open, discPending, emitted>>
    /\ UNCHANGED <<tier, libAvailable, ui, applied, logger>>

\* testConnection, line 146: client.list('/') rejects; nothing catches it
\* before retryOperation does
TestListFail(c) ==
    /\ calls[c].pc = "tc_list"
    /\ Fail(c, "list failed", {})
    /\ UNCHANGED <<ftpClient, ftpConfig, connectionMetrics, open, discCalled,
                   discPending>>
    /\ UNCHANGED <<tier, libAvailable, ui, applied, logger>>

\* disconnectClient, lines 157-166: client.disconnect() settles; a failure is
\* logged and swallowed. Either way the handle counts as released from then
\* on (the disconnect is best-effort).
DisconnectLogs(ok) ==
    IF ok THEN {Ev("debug", "FTP client disconnected")}
    ELSE {Ev("warn", "Error disconnecting FTP client")}

\* disconnectClient, lines 157-166, awaited by its caller: the try block
\* encloses client.disconnect() and the catch block only logs
disconnectClientRethrows(ok) == IF ok THEN "resolves" ELSE "rejects"
disconnectClient(ok) == "resolves"

\* testConnection, lines 149-152
TestDisconnected(c, ok) ==
    /\ calls[c].pc = "tc_disc"
    /\ open' = open \ {calls[c].client}
    /\ IF disconnectClient(ok) = "resolves"
       THEN Succeed(c, Value("true", c, calls[c].attempt), DisconnectLogs(ok) \cup
                          {Ev("info", "FTP connection test successful")})
       ELSE Fail(c, "disconnect failed", DisconnectLogs(ok))
    /\ UNCHANGED <<ftpClient, ftpConfig, connectionMetrics, discCalled, discPending>>
    /\ UNCHANGED <<tier, libAvailable, ui, applied, logger>>

\* downloadFile, lines 226-229: client.downloadFile resolves, validateFile
\* awaits FileSystem.getInfoAsync
GetOk(c) ==
    /\ calls[c].pc = "dl_get"
    /\ calls' = [calls EXCEPT ![c].pc = "dl_validate"]
    /\ UNCHANGED <<ftpClient, ftpConfig, connectionMetrics, open, discCalled,
                   discPending, emitted>>
    /\ UNCHANGED <<tier, libAvailable, ui, applied, logger>>

\* downloadFile, lines 249-273: the catch block records a failed metric and
\* rethrows; the finally block disconnects the client
DownloadCatch(c, err, logs) ==
    /\ Push(c, FALSE, 0)
    /\ EnterFinallyFrom(c, WithPushed(calls[c], FALSE), err, NoResult,
                        logs \cup {Ev("error", "File download failed")})

\* downloadFile, line 226: client.downloadFile rejects
GetFail(c) ==
    /\ calls[c].pc = "dl_get"
    /\ DownloadCatch(c, "get failed", {})
    /\ UNCHANGED <<ftpClient, ftpConfig, open, discPending>>
    /\ UNCHANGED <<tier, libAvailable, ui, applied, logger>>

\* validateFile, lines 170-193, on what getInfoAsync reports; on success
\* downloadFile awaits getInfoAsync again (line 232)
Validate(c, info) ==
    /\ calls[c].pc = "dl_validate"
    /\ IF validateFile(tier, info) = "ok"
       THEN /\ calls' = [calls EXCEPT ![c].pc = "dl_stat", ![c].size = info.size]
            /\ emitted' = emitted \cup
                    Logged(c, validateFileLogs(tier, ConfigFilename(ftpConfig)))
            /\ UNCHANGED <<connectionMetrics, discCalled>>
       ELSE DownloadCatch(c, validateFile(tier, info), {})
    /\ UNCHANGED <<ftpClient, ftpConfig, open, discPending>>
    /\ UNCHANGED <<tier, libAvailable, ui, applied, logger>>

\* downloadFile, lines 231-248 and 269-273: the success metric, the returned
\* path, and the finally block
Downloaded(c) ==
    /\ calls[c].pc = "dl_stat"
    /\ Push(c, TRUE, calls[c].size)
    /\ EnterFinallyFrom(c, WithPushed(calls[c], TRUE), "return",
                        RealPath(c, calls[c].attempt),
                        {Ev("info", "File downloaded successfully")})
    /\ UNCHANGED <<ftpClient, ftpConfig, open, discPending>>
    /\ UNCHANGED <<tier, libAvailable, ui, applied, logger>>

\* listFiles, lines 344-349
ListSettles(c, ok) ==
    /\ calls[c].pc = "ls_list"
    /\ IF ok
       THEN EnterFinally(c, "return", Value("fileList", c, calls[c].attempt),
                         {Ev("info", "Files listed successfully")})
       ELSE EnterFinally(c, "list failed", NoResult, {})
    /\ UNCHANGED <<ftpClient, ftpConfig, connectionMetrics, open, discPending>>
    /\ UNCHANGED <<tier, libAvailable, ui, applied, logger>>

\* uploadFile, lines 367-372: getInfoAsync of the local file
UploadStat(c, exists) ==
    /\ calls[c].pc = "up_stat"
    /\ exists = (calls[c].localPath = "present")
    /\ IF exists
       THEN /\ calls' = [calls EXCEPT ![c].pc = "connect"]
            /\ emitted' = emitted \cup Logged(c, {Ev("debug", "Initializing FTP client")})
       ELSE Fail(c, "Local file does not exist", {})
    /\ UNCHANGED <<ftpClient, ftpConfig, connectionMetrics, open, discCalled,
                   discPending>>
    /\ UNCHANGED <<tier, libAvailable, ui, applied, logger>>

\* uploadFile, lines 374-384
PutSettles(c, ok) ==
    /\ calls[c].pc = "up_put"
    /\ IF ok
       THEN EnterFinally(c, "return", Value("true", c, calls[c].attempt),
                         {Ev("info", "File uploaded successfully")})
       ELSE EnterFinally(c, "put failed", NoResult, {})
    /\ UNCHANGED <<ftpClient, ftpConfig, connectionMetrics, open, discPending>>
    /\ UNCHANGED <<tier, libAvailable, ui, applied, logger>>

\* The finally block's disconnectClient settles: the attempt resolves with
\* its result or rejects with its error.
FinallyDisconnected(c, ok) ==
    /\ calls[c].pc = "finally_disc"
    /\ open' = open \ {calls[c].client}
    /\ CASE disconnectClient(ok) # "resolves" ->
                Fail(c, "disconnect failed", DisconnectLogs(ok))
         [] OTHER ->
                IF calls[c].pending = "return"
                THEN Succeed(c, calls[c].result, DisconnectLogs(ok))
                ELSE Fail(c, calls[c].pending, DisconnectLogs(ok))
    /\ UNCHANGED <<ftpClient, ftpConfig, connectionMetrics, discCalled, discPending>>
    /\ UNCHANGED <<tier, libAvailable, ui, applied, logger>>

\* The library is missing: testConnection (line 139) and uploadFile (line 362)
\* resolve true after their delay; mockDownload (lines 281-288) generates the
\* data and awaits writeAsStringAsync
MockDelay(c) ==
    /\ calls[c].pc = "mock_delay"
    /\ IF calls[c].op = "downloadFile"
       THEN /\ calls' = [calls EXCEPT ![c].pc = "mock_write"]
            /\ emitted' = emitted \cup
                    Logged(c, {Ev("debug", "Generating mock XLS data for demonstration")})
       ELSE Succeed(c, Value("true", c, calls[c].attempt), {})
    /\ UNCHANGED <<ftpClient, ftpConfig, connectionMetrics, open, discCalled,
                   discPending>>
    /\ UNCHANGED <<tier, libAvailable, ui, applied, logger>>

\* mockDownload, lines 286-291: the write settles; a failed write is caught by
\* downloadFile's catch block
MockWrite(c, ok) ==
    /\ calls[c].pc = "mock_write"
    /\ IF ok
       THEN /\ Succeed(c, MockPath(c, calls[c].attempt),
                       {Ev("info", "Mock file created successfully")})
            /\ UNCHANGED connectionMetrics
       ELSE /\ Push(c, FALSE, 0)
            /\ FailFrom(c, WithPushed(calls[c], FALSE), "write failed",
                        {Ev("error", "File download failed")})
    /\ UNCHANGED <<ftpClient, ftpConfig, open, discCalled, discPending>>
    /\ UNCHANGED <<tier, libAvailable, ui, applied, logger>>

\* listFiles, lines 336-339: the mock list
MockList(c) ==
    /\ calls[c].pc = "mock_list"
    /\ Succeed(c, Value("mockFileList", c, calls[c].attempt), {})
    /\ UNCHANGED <<ftpClient, ftpConfig, connectionMetrics, open, discCalled,
                   discPending>>
    /\ UNCHANGED <<tier, libAvailable, ui, applied, logger>>

\* retryOperation, lines 120-123 and 101-104: the backoff delay elapses
Backoff(c) ==
    /\ calls[c].pc = "backoff"
    /\ calls' = [calls EXCEPT ![c] = AfterIncrement(calls[c])]
    /\ emitted' = emitted \cup Logged(c, AfterIncrementLogs(calls[c]))
    /\ UNCHANGED <<ftpClient, ftpConfig, connectionMetrics, open, discCalled,
                   discPending>>
    /\ UNCHANGED <<tier, libAvailable, ui, applied, logger>>

\* updateConfig, lines 388-401: the new config is installed, then
\* disconnectClient(this.ftpClient) is called without await
updateConfigBody(by, newConfig) ==
    /\ newConfig # ftpConfig
    /\ ftpConfig' = newConfig
    /\ emitted' = emitted \cup Logged(by, {Ev("info", "Updating FTP configuration")})
    /\ IF ftpClient # NoHandle
       THEN /\ discCalled' = discCalled \cup {ftpClient}
            /\ discPending' = discPending \cup {ftpClient}
            /\ ftpClient' = NoHandle
       ELSE UNCHANGED <<discCalled, discPending, ftpClient>>
    /\ UNCHANGED <<connectionMetrics, open>>
    /\ UNCHANGED <<tier, libAvailable, ui, applied, logger>>

\* updateConfig called at any moment (it is synchronous)
updateConfig(newConfig) ==
    /\ updateConfigBody(0, newConfig)
    /\ UNCHANGED calls

\* clearMetrics, lines 411-414 (synchronous, called at any moment)
clearMetrics ==
    /\ connectionMetrics' = <<>>
    /\ emitted' = emitted \cup Logged(0, {Ev("debug", "Connection metrics cleared")})
    /\ UNCHANGED <<calls, ftpClient, ftpConfig, open, discCalled, discPending>>
    /\ UNCHANGED <<tier, libAvailable, ui, applied, logger>>

\* updateConfig as one of the MaxCalls calls made on the service
UpdateConfigCall(c, newConfig) ==
    /\ calls[c].pc = "idle"
    /\ \A d \in Calls : d < c => calls[d].pc # "idle"
    /\ calls' = [calls EXCEPT ![c] = [NoCall EXCEPT !.op = "updateConfig", !.pc = "returned"]]
    /\ updateConfigBody(c, newConfig)

\* The disconnect updateConfig started settles.
UpdateConfigDisconnected(h, ok) ==
    /\ h \in discPending
    /\ discPending' = discPending \ {h}
    /\ open' = open \ {h}
    /\ emitted' = emitted \cup Logged(0, DisconnectLogs(ok))
    /\ UNCHANGED <<calls, ftpClient, ftpConfig, connectionMetrics, discCalled>>
    /\ UNCHANGED <<tier, libAvailable, ui, applied, logger>>

----------------------------------------------------------------------------
(* components/DataDisplay.tsx *)

\* Every setState is taken to be rendered, and the effects of the render run,
\* before the next timer, input or I/O event is handled.

\* fetch cycles that may be in flight together
MaxCycles == 2
\* the consecutive-failure counter is followed up to this value
MaxRetryCount == 4

Cycles == 1..MaxCycles

NoCycle ==
    [pc |-> "idle", initial |-> FALSE, rc |-> FALSE, source |-> "none",
     statOk |-> FALSE, contentRead |-> FALSE, decoded |-> FALSE,
     csvSplit |-> FALSE, sawEmpty |-> FALSE, alerted |-> FALSE,
     testOk |-> FALSE, deleteFailed |-> FALSE]

\* no file was decoded: the cycle that decoded, whether XLSX.read accepted
\* the content, and the file
NoParse == [cycle |-> 0, xlsxOk |-> FALSE, file |-> 0]

\* useState initial values (lines 61-72); chartData, pieData and data hold
\* the slot of the cycle whose grid they were built from (0: null or empty,
\* as on lines 62-64); everFailed: a cycle has failed in this session;
\* failures: the cycles that failed since a cycle last succeeded (counted to
\* AlertAfter); alerted, in a cycle's record: it showed Alert.alert;
\* deleteFailed: its deleteAsync was rejected;
\* loadPending: loadFTPConfiguration is
\* awaiting loadCredentials; testing: a testFTPConnection started by the
\* Test Connection button is in flight; completed: some operation has
\* finished; last: the cycle that ended in the latest step, as it ended
InitUI ==
    [mounted |-> FALSE, loadPending |-> FALSE, isLoading |-> FALSE,
     isRefreshing |-> FALSE, autoRefresh |-> TRUE,
     connectionStatus |-> "disconnected", retryCount |-> 0, hasChart |-> FALSE,
     chartData |-> 0, pieData |-> 0, data |-> 0,
     testing |-> FALSE, completed |-> FALSE, last |-> NoCycle,
     everFailed |-> FALSE, failures |-> 0, parsed |-> NoParse,
     cycles |-> [k \in Cycles |-> NoCycle]]

\* last describes the cycle that ended in the step just taken, parsed the
\* decode made in it
Forget(u) == [u EXCEPT !.last = NoCycle, !.parsed = NoParse]

FTPStill ==
    UNCHANGED <<calls, ftpClient, ftpConfig, connectionMetrics, open, discCalled,
                discPending, emitted>>

FTPUnchanged ==
    UNCHANGED <<tier, libAvailable, calls, ftpClient, ftpConfig, connectionMetrics,
                open, discCalled, discPending, emitted, applied, logger>>

InFlight == {k \in Cycles : ui.cycles[k].pc # "idle"}

\* lines 91-109: the interval exists after a render with
\* autoRefresh && !isLoading && !isRefreshing
IntervalActive ==
    ui.mounted /\ ui.autoRefresh /\ ~ui.isLoading /\ ~ui.isRefreshing

\* lines 536-538: the loading screen replaces the whole view
MainScreenShown == ui.mounted /\ ~(ui.isLoading /\ ~ui.hasChart)

\* lines 612 and 625: disabled={isLoading || isRefreshing}
ButtonsEnabled == MainScreenShown /\ ~(ui.isLoading \/ ui.isRefreshing)

parseFileCheckNoEmptyTest(t, info) ==
    IF ~info.exists THEN "Downloaded file does not exist"
    ELSE IF info.size > maxFileSize(t) THEN "File size exceeds maximum allowed size"
    ELSE "ok"

\* parseXLSFile, lines 202-213: the checks on what getInfoAsync reports
parseFileCheck(t, info) ==
    IF ~info.exists THEN "Downloaded file does not exist"
    ELSE IF info.size = 0 THEN "Downloaded file is empty"
    ELSE IF info.size > maxFileSize(t) THEN "File size exceeds maximum allowed size"
    ELSE "ok"

AlertAfter == 3
Reached(retryCount) == retryCount >= AlertAfter

\* fetchAndProcessData, lines 340-355, to its first await (testConnection):
\* the loading flag, and testFTPConnection's setConnectionStatus('connecting')
BeginCycle(k, isInitialLoad) ==
    [Forget(ui) EXCEPT !.isLoading = IF isInitialLoad THEN TRUE ELSE @,
               !.isRefreshing = IF isInitialLoad THEN @ ELSE TRUE,
               !.connectionStatus = "connecting",
               !.cycles[k] = [NoCycle EXCEPT !.pc = "test", !.initial = isInitialLoad,
                                             !.rc = Reached(ui.retryCount)]]

\* the record kept of a cycle that ended: what it did and how it ended
Ended(cycle, how) == [cycle EXCEPT !.pc = how, !.rc = FALSE, !.initial = FALSE]

\* line 417: isInitialLoad || retryCount >= 3, with retryCount the value the
\* callback closed over, kept in a cycle's rc as all that line 417 asks of it
Alerts(isInitialLoad, reached) == isInitialLoad \/ reached

\* fetchAndProcessData, lines 401-425: the catch and finally blocks
FailCycle(u, k) ==
    [u EXCEPT !.connectionStatus = "error",
              !.retryCount = @ + 1,
              !.isLoading = IF u.cycles[k].initial THEN FALSE ELSE @,
              !.isRefreshing = IF u.cycles[k].initial THEN @ ELSE FALSE,
              !.completed = TRUE,
              !.everFailed = TRUE,
              !.failures = Min(@ + 1, AlertAfter),
              !.last = [Ended(u.cycles[k], "failed") EXCEPT
                           !.alerted = Alerts(u.cycles[k].initial, u.cycles[k].rc)],
              !.cycles[k] = NoCycle]

FreeCycle(k) == ui.cycles[k].pc = "idle" /\ \A j \in Cycles : j < k => ui.cycles[j].pc # "idle"

\* lines 85-88: the mount effect calls loadFTPConfiguration
Mount ==
    /\ ~ui.mounted
    /\ ui' = [Forget(ui) EXCEPT !.mounted = TRUE, !.loadPending = TRUE]
    /\ FTPUnchanged

\* loadFTPConfiguration, lines 124-135: loadCredentials resolves (with a
\* config or null) and fetchAndProcessData(true) is called
LoadConfigDone(k) ==
    /\ ui.loadPending
    /\ FreeCycle(k)
    /\ ui' = [BeginCycle(k, TRUE) EXCEPT !.loadPending = FALSE]
    /\ FTPUnchanged

\* lines 93-96: the interval fires
IntervalTick(k) ==
    /\ IntervalActive
    /\ FreeCycle(k)
    /\ ui' = BeginCycle(k, FALSE)
    /\ FTPUnchanged

\* lines 622-626 and 428-431: the Refresh Data button (handleRefresh)
RefreshButton(k) ==
    /\ ButtonsEnabled
    /\ FreeCycle(k)
    /\ ui' = BeginCycle(k, FALSE)
    /\ FTPUnchanged

\* lines 545-548 and 428-431: pull to refresh (RefreshControl,
\* refreshing={isRefreshing}, onRefresh={handleRefresh})
PullToRefresh(k) ==
    /\ MainScreenShown
    /\ ~ui.isRefreshing
    /\ FreeCycle(k)
    /\ ui' = BeginCycle(k, FALSE)
    /\ FTPUnchanged

\* lines 592-598: the auto-refresh switch
ToggleAutoRefresh ==
    /\ MainScreenShown
    /\ ui' = [Forget(ui) EXCEPT !.autoRefresh = ~@]
    /\ FTPUnchanged

\* lines 609-612 and 143-150: the Test Connection button (one test of the
\* button in flight at a time)
TestButton ==
    /\ ButtonsEnabled
    /\ ~ui.testing
    /\ ui' = [Forget(ui) EXCEPT !.testing = TRUE, !.connectionStatus = "connecting"]
    /\ FTPUnchanged

\* what FTPService.testConnection settles with: true, or the last error
\* thrown by retryOperation
TestOutcomes == IF libAvailable THEN {"true", "throws"} ELSE {"true"}

\* testFTPConnection, lines 150-168
StatusAfterTest(outcome) == IF outcome = "true" THEN "connected" ELSE "error"

\* testFTPConnection, lines 152-168: setRetryCount(0) on success
RetryCountAfterTest(outcome, rc) == IF outcome = "true" THEN 0 ELSE rc

TestButtonSettles(outcome) ==
    /\ ui.testing
    /\ ui' = [Forget(ui) EXCEPT !.testing = FALSE,
                        !.connectionStatus = StatusAfterTest(outcome),
                        !.retryCount = RetryCountAfterTest(outcome, @),
                        !.completed = TRUE]
    /\ FTPUnchanged

\* fetchAndProcessData, lines 355-362: the connectivity test settles; the
\* download starts whatever its result
CycleTestSettles(k, outcome) ==
    /\ ui.cycles[k].pc = "test"
    /\ ui' = [Forget(ui) EXCEPT !.connectionStatus = StatusAfterTest(outcome),
                        !.retryCount = RetryCountAfterTest(outcome, @),
                        !.cycles[k].testOk = (outcome = "true"),
                        !.cycles[k].pc = "download"]
    /\ FTPUnchanged

\* what FTPService.downloadFile settles with, given what validateFile saw on
\* the last attempt: a real path only for a file that passed validateFile, a
\* mock path only without the library, or the last error
DownloadOutcomes(info) ==
    IF libAvailable
    THEN (IF validateFile(tier, info) = "ok" THEN {"real"} ELSE {}) \cup {"throws"}
    ELSE {"mock", "throws"}

\* lines 362-365 and 401: an awaited promise that rejects takes the cycle to
\* the catch block
RejectedNever(outcome) == FALSE
Rejected(outcome) == outcome = "throws"

\* fetchAndProcessData, lines 362-368, downloadXLSFile, lines 172-194, and
\* parseXLSFile to its getInfoAsync (line 202)
CycleDownloadSettles(k, info, outcome) ==
    /\ ui.cycles[k].pc = "download"
    /\ outcome \in DownloadOutcomes(info)
    /\ outcome = "throws" => ui.retryCount < MaxRetryCount
    /\ LET seen == libAvailable /\ info.exists /\ info.size = 0 IN
       ui' = IF Rejected(outcome)
             THEN FailCycle(ui, k)
             ELSE [Forget(ui) EXCEPT !.cycles[k].pc = "parse_stat",
                             !.cycles[k].source = outcome,
                             !.cycles[k].sawEmpty = seen]
    /\ FTPUnchanged

\* parseXLSFile, lines 202-218: the checks on what getInfoAsync reports, then
\* readAsStringAsync is called
ParseStat(k, info) ==
    /\ ui.cycles[k].pc = "parse_stat"
    /\ parseFileCheck(tier, info) # "ok" => ui.retryCount < MaxRetryCount
    /\ LET u == [Forget(ui) EXCEPT !.cycles[k].sawEmpty = @ \/ (info.exists /\ info.size = 0)]
       IN ui' = IF parseFileCheck(tier, info) = "ok"
                THEN [u EXCEPT !.cycles[k].pc = "parse_read",
                               !.cycles[k].statOk = TRUE,
                               !.cycles[k].contentRead = TRUE]
                ELSE FailCycle(u, k)
    /\ FTPUnchanged

\* lines 391-399: the inner try/catch around deleteAsync only logs the
\* failure, so the catch block of the cycle (line 401) is not reached
CleanupRejectedOnFailure(ok) == ~ok
CleanupRejected(ok) == FALSE

\* fetchAndProcessData, lines 391-399 and 422-425: deleteAsync settles (a
\* failure is only logged), then the finally block
Cleanup(k, ok) ==
    /\ ui.cycles[k].pc = "cleanup"
    /\ CleanupRejected(ok) => ui.retryCount < MaxRetryCount
    /\ LET u == [Forget(ui) EXCEPT !.cycles[k].deleteFailed = ~ok]
       IN ui' = IF CleanupRejected(ok)
                THEN FailCycle(u, k)
                ELSE [u EXCEPT !.isLoading = IF ui.cycles[k].initial THEN FALSE ELSE @,
                               !.isRefreshing = IF ui.cycles[k].initial THEN @ ELSE FALSE,
                               !.completed = TRUE,
                               !.failures = 0,
                               !.last = Ended(u.cycles[k], "done"),
                               !.cycles[k] = NoCycle]
    /\ FTPUnchanged

----------------------------------------------------------------------------
(* components/DataDisplay.tsx: processDataForCharts *)

\* A JavaScript number is held in halves (1 is Whole(1), 0.5 is Half), so that
\* the fractions a cell can carry are exact.
Whole(n) == 2 * n
Half == 1

\* A raw cell of the grid: a string (CSV split, text cells), or what
\* sheet_to_json yields for number and boolean cells; undefined is what
\* indexing past the end of a row yields.
Str(text) == [t |-> "string", s |-> text, n |-> 0]
NumCell(n) == [t |-> "number", s |-> "", n |-> n]
BoolCell(b) == [t |-> "boolean", s |-> IF b THEN "true" ELSE "false", n |-> 0]
Undefined == [t |-> "undefined", s |-> "", n |-> 0]

\* row[i], i counted from 0 as in the code
At(row, i) == IF i + 1 <= Len(row) THEN row[i + 1] ELSE Undefined

\* a number, or NaN
Num(v) == [nan |-> FALSE, v |-> v]
NaN == [nan |-> TRUE, v |-> 0]

\* Number(text) for the strings that occur in cells: numeric strings give
\* their number, the empty string gives 0, any other text gives NaN
StringToNumber(text) ==
    CASE text = "" -> Num(0)
      [] text = "0" -> Num(0)
      [] text = "5" -> Num(Whole(5))
      [] text = "-5" -> Num(Whole(0 - 5))
      [] text = "0.5" -> Num(Half)
      [] text = "100" -> Num(Whole(100))
      [] text = "300" -> Num(Whole(300))
      [] OTHER -> NaN

\* Number(value), line 297
Number(cell) ==
    CASE cell.t = "number" -> Num(cell.n)
      [] cell.t = "boolean" -> IF cell.s = "true" THEN Num(Whole(1)) ELSE Num(0)
      [] cell.t = "undefined" -> NaN
      [] OTHER -> StringToNumber(cell.s)

\* lines 296-298: isNaN(numValue) ? 0 : numValue
Coerce(cell) == IF Number(cell).nan THEN 0 ELSE Number(cell).v

\* row[0] || ..., line 287: undefined, the empty string, 0 and false are falsy
Falsy(cell) ==
    CASE cell.t = "undefined" -> TRUE
      [] cell.t = "string" -> cell.s = ""
      [] cell.t = "number" -> cell.n = 0
      [] OTHER -> cell.s = "false"

\* the length of the texts that occur as labels
TextLength(text) == IF text = "September 2024" THEN 14 ELSE 3

\* lines 286-289: String(row[0] || `Row ${index + 1}`), cut to 10 characters
\* and '...' when longer (index counted from 0)
Label(cell, index) ==
    IF Falsy(cell) THEN [text |-> "Row", row |-> index + 1, cut |-> FALSE]
    ELSE [text |-> cell.s, row |-> 0, cut |-> TextLength(cell.s) > 10]

\* line 275: rawData.slice(1).filter(row => row && row.length > 0)
DataRows(rawData) == SelectSeq(Tail(rawData), LAMBDA row : Len(row) > 0)

\* line 294: the columns the loop visits, i = 1 while i < headers.length && i < 5
ColumnLimit == 5
CandidateColumnsUnlimited(headers) == {i \in 1..Len(headers) : i < Len(headers)}
CandidateColumns(headers) == {i \in 1..Len(headers) : i < Len(headers) /\ i < ColumnLimit}

\* lines 295-299: the coerced values of column i
ColumnData(dataRows, i) == [k \in 1..Len(dataRows) |-> Coerce(At(dataRows[k], i))]

SomeNonZeroFirstOnly(data) == Len(data) > 0 /\ data[1] # 0

\* line 302: columnData.some(val => val !== 0)
SomeNonZero(data) == \E k \in 1..Len(data) : data[k] # 0

\* lines 294-309: the datasets pushed by the loop from column i on (the
\* column is kept in the colour of the dataset)
RECURSIVE DatasetsFrom(_, _, _)
DatasetsFrom(headers, dataRows, i) ==
    IF i \notin CandidateColumns(headers) THEN <<>>
    ELSE (IF SomeNonZero(ColumnData(dataRows, i))
          THEN <<[column |-> i, data |-> ColumnData(dataRows, i)]>>
          ELSE <<>>) \o DatasetsFrom(headers, dataRows, i + 1)

Abs(v) == IF v < 0 THEN 0 - v ELSE v

\* line 321: Math.abs(v) || 1
PieValue(v) == IF Abs(v) = 0 THEN Whole(1) ELSE Abs(v)

NoSeries(message) == [status |-> message, labels |-> <<>>, datasets |-> <<>>, pie |-> <<>>]

\* processDataForCharts, lines 265-338: the chart model, or the error thrown
processDataForCharts(rawData) ==
    IF Len(rawData) < 2 THEN NoSeries("Insufficient data")
    ELSE LET headers == rawData[1]
             dataRows == DataRows(rawData)
             labels == [k \in 1..Len(dataRows) |-> Label(At(dataRows[k], 0), k - 1)]
             datasets == DatasetsFrom(headers, dataRows, 1)
         IN IF Len(dataRows) = 0 THEN NoSeries("No data rows found")
            ELSE IF Len(datasets) = 0 THEN NoSeries("No numeric data columns found")
            ELSE [status |-> "ok", labels |-> labels, datasets |-> datasets,
                  pie |-> [k \in 1..Len(labels) |-> PieValue(datasets[1].data[k])]]

\* The grids processDataForCharts is applied to.
Header(h) == [j \in 1..h |-> IF j = 1 THEN Str("Month") ELSE Str("Sales")]
Month(k) == CASE k = 1 -> Str("Jan") [] k = 2 -> Str("Feb") [] OTHER -> Str("Mar")

\* what a data cell can hold
DataCells ==
    {Str("100"), Str("300"), Str("0"), Str("-5"), Str("0.5"), Str(""), Str("bad"),
     NumCell(Whole(5)), BoolCell(TRUE)}

\* one data column, every kind of cell, up to MaxDataRows rows
NarrowGrids ==
    UNION {{<<Header(2)>> \o [k \in 1..r |-> <<Month(k), cells[k]>>] :
                cells \in [1..r -> DataCells]} : r \in 1..MaxDataRows}

\* headers of every length up to MaxHeader over one row of zeros and fives
WideGrids ==
    UNION {{<<Header(h), <<Month(1)>> \o cells>> :
                cells \in [1..(h - 1) -> {Str("0"), Str("5")}]} : h \in 1..MaxHeader}

\* the same under a first row of zeros: a column's only non-zero value is in
\* its last row
LateGrids ==
    UNION {{<<Header(h), <<Month(1)>> \o [j \in 1..(h - 1) |-> Str("0")],
              <<Month(2)>> \o cells>> :
                cells \in [1..(h - 1) -> {Str("0"), Str("5")}]} : h \in 1..MaxHeader}

\* [[Month,Sales],[Jan,100],[Feb,bad],[Mar,300]]
ScenarioA ==
    <<Header(2), <<Str("Jan"), Str("100")>>, <<Str("Feb"), Str("bad")>>,
      <<Str("Mar"), Str("300")>>>>

\* no rows, a header alone, blank rows, rows shorter and longer than the
\* header, an empty header, an empty and a long label
SpecialGrids ==
    {<<>>, <<Header(1)>>, <<Header(2)>>, <<Header(1), <<>>>>, <<Header(2), <<>>, <<>>>>,
     <<Header(3), <<Str("Jan")>>>>,
     <<Header(2), <<Str("Jan"), Str("5"), Str("100")>>>>,
     <<<<>>, <<Str("Jan"), Str("5")>>>>,
     <<Header(2), <<Str(""), Str("5")>>>>,
     <<Header(2), <<Str("September 2024"), Str("5")>>>>,
     <<Header(2), <<>>, <<Str("Jan"), Str("5")>>>>,
     ScenarioA}

RowGrids == NarrowGrids \cup WideGrids \cup LateGrids \cup SpecialGrids

----------------------------------------------------------------------------
(* components/DataDisplay.tsx: parseXLSFile's decode and the step that runs it *)

\* what readAsStringAsync settles with
Contents == {"rejects", "empty", "data"}

\* String.prototype.split on one separator character, a text being its
\* sequence of characters: the pieces between the separators (one piece,
\* the text itself, when there is none)
RECURSIVE split(_, _)
split(text, separator) ==
    LET hits == {i \in 1..Len(text) : text[i] = separator}
        first == CHOOSE i \in hits : \A j \in hits : i <= j
    IN IF hits = {} THEN <<text>>
       ELSE <<SubSeq(text, 1, first - 1)>> \o
            split(SubSeq(text, first + 1, Len(text)), separator)

\* the white space String.prototype.trim removes (of the characters that occur)
Whitespace == {" ", "\r", "\t", "\n"}

trimNothing(text) == text
trim(text) ==
    LET inked == {i \in 1..Len(text) : text[i] \notin Whitespace}
    IN IF inked = {} THEN <<>>
       ELSE SubSeq(text, CHOOSE i \in inked : \A j \in inked : i <= j,
                         CHOOSE i \in inked : \A j \in inked : j <= i)

\* lines 246-248: csvContent.split('\n').filter(row => row.trim().length > 0)
\*                   .map(row => row.split(',').map(cell => cell.trim()))
csvRows(csvContent) ==
    LET rows == SelectSeq(split(csvContent, "\n"), LAMBDA row : Len(trim(row)) > 0)
    IN [i \in 1..Len(rows) |->
            LET cells == split(rows[i], ",")
            IN [j \in 1..Len(cells) |-> trim(cells[j])]]

\* the string of a sequence of characters
RECURSIVE Joined(_)
Joined(chars) == IF chars = <<>> THEN "" ELSE Head(chars) \o Joined(Tail(chars))

\* the rows of the CSV split as raw cells (all of them strings)
StringCells(rows) ==
    [i \in 1..Len(rows) |-> [j \in 1..Len(rows[i]) |-> Str(Joined(rows[i][j]))]]

\* the files a cycle may have downloaded: what sheet_to_json yields for the
\* file when XLSX.read accepts it (no row; a text column; a chartable grid),
\* and the text it decodes to when not (a header and a blank line; a text
\* column; a chartable grid with a blank line and padded cells)
Sheets ==
    <<<<>>,
      <<Header(2), <<Str("Jan"), Str("bad")>>>>,
      ScenarioA>>
CsvTexts ==
    <<<<"m", ",", "s", "\n", " ", "\n">>,
      <<"m", ",", "s", "\n", "j", ",", "x">>,
      <<" ", "m", " ", ",", "s", "\r", "\n", "\t", "\n", "j", ",", " ", "5", " ", "\n">>>>
Files == 1..Len(CsvTexts)

\* parseXLSFile, lines 246-248, on the text of each file
CsvRows == [file \in Files |-> csvRows(CsvTexts[file])]

\* parseXLSFile, lines 226-255: the rows it returns for a file
Parsed ==
    [xlsxOk \in BOOLEAN |->
        [file \in Files |-> IF xlsxOk THEN Sheets[file]
                            ELSE StringCells(CsvRows[file])]]

\* the grid as processDataForCharts judges it (lines 268-313): fewer than 2
\* rows, no data row or no numeric column, or chartable
Grids == {"insufficient", "nonnumeric", "good"}
GridKind(rawData) ==
    LET status == processDataForCharts(rawData).status
    IN IF status = "ok" THEN "good"
       ELSE IF status = "Insufficient data" THEN "insufficient" ELSE "nonnumeric"
Judged == [xlsxOk \in BOOLEAN |-> [file \in Files |-> GridKind(Parsed[xlsxOk][file])]]

\* processDataForCharts, lines 265-338: the pieces of displayed state it has
\* set when it returns or throws. Every throw (lines 269, 277, 312) comes
\* before setChartData on line 316, and nothing after that line throws.
SetsEarly(grid) == IF grid = "insufficient" THEN {} ELSE {"chartData"}
Sets(grid) == IF grid = "good" THEN {"chartData", "pieData", "data"} ELSE {}

\* the displayed state after processDataForCharts ran on the grid of cycle k
Display(u, k, set) ==
    [u EXCEPT !.chartData = IF "chartData" \in set THEN k ELSE @,
              !.pieData = IF "pieData" \in set THEN k ELSE @,
              !.data = IF "data" \in set THEN k ELSE @]

\* parseXLSFile, lines 216-255 (XLSX.read, or the CSV split when it throws),
\* processDataForCharts (lines 265-338) and fetchAndProcessData, lines
\* 368-392, to the await of deleteAsync (content that is not data is not
\* decoded, so it is paired with one xlsxOk and one file only)
ParseRead(k, content, xlsxOk, file) ==
    /\ ui.cycles[k].pc = "parse_read"
    /\ content # "data" => (xlsxOk /\ file = 1)
    /\ LET grid == Judged[xlsxOk][file]
           d == [Forget(ui) EXCEPT
                    !.cycles[k].decoded = (content = "data"),
                    !.cycles[k].csvSplit = (content = "data" /\ ~xlsxOk),
                    !.parsed = IF content = "data"
                               THEN [cycle |-> k, xlsxOk |-> xlsxOk, file |-> file]
                               ELSE NoParse]
           u == IF content = "data" THEN Display(d, k, Sets(grid)) ELSE d
       IN /\ (content # "data" \/ grid # "good") => ui.retryCount < MaxRetryCount
          /\ ui' = IF content = "data" /\ grid = "good"
                   THEN [u EXCEPT !.hasChart = TRUE,
                                  !.connectionStatus = "connected",
                                  !.retryCount = 0,
                                  !.cycles[k].pc = "cleanup"]
                   ELSE FailCycle(u, k)
    /\ FTPUnchanged

----------------------------------------------------------------------------
(* unnamed/part_002: LoggerService, the queue and its flushes *)

\* line 19
maxQueueSize == 100
\* environment.ts, lines 40 and 59
enableRemoteLogging(t) == t = "production"
\* environment.ts, lines 39 and 58
enableConsoleLogging(t) == t = "development"
\* environment.ts, line 23: __DEV__ selects the development configuration
isDevelopment(t) == t = "development"

LogCalls == 1..MaxLogCalls
LogLevels == {"debug", "info", "warn", "error"}
Timer == 0

\* Array.prototype.slice(-n) for n >= 1: the last n elements, all of them
\* when there are fewer
sliceFirst(q, n) == IF Len(q) <= n THEN q ELSE SubSeq(q, 1, n)
slice(q, n) == IF Len(q) <= n THEN q ELSE SubSeq(q, Len(q) - n + 1, Len(q))

\* log, lines 150-155: push, then the truncation
OverflowsLate(q) == Len(q) > maxQueueSize + 1
Overflows(q) == Len(q) > maxQueueSize
Pushed(q, entry) ==
    LET pushed == Append(q, entry)
    IN IF Overflows(pushed) THEN slice(pushed, maxQueueSize) ELSE pushed

\* log, line 158
FlushesNever(level) == FALSE
FlushesImmediately(level) == level = "error"

\* sendToRemoteService, lines 92-109: how the promise settles when the
\* forwarding was disabled, went through or threw inside the try block;
\* the catch on lines 106-108 keeps the failure from the caller
ForwardOutcomes(t) == IF enableRemoteLogging(t) THEN {"sent", "failed"} ELSE {"disabled"}
sendToRemoteServiceRethrows(forwarding) ==
    IF forwarding = "failed" THEN "rejects" ELSE "resolves"
sendToRemoteService(forwarding) == "resolves"

\* flush, line 132
Requeue(logsToFlush, q) == slice(logsToFlush, maxQueueSize \div 2) \o q

NoLogCall == [pc |-> "idle", level |-> "none", entry |-> 0]
NoLogResult == [level |-> "none", entry |-> 0, outcome |-> "none", handed |-> <<>>]
NoFlush == [forwarding |-> "none", logsToFlush |-> <<>>, requeued |-> <<>>]

\* the logger after n events were accepted and none was flushed; an entry is
\* the ordinal of its creation (createLogEntry, line 139). logged: the
\* events accepted since; appended: the
\* entries pushed since the queue was last drained; last: the log call that
\* completed last; settled: the flush that settled last
\* console: whether console.error and console.warn are the originals or the
\* overrides of setupGlobalErrorHandling; chain: the events created since the
\* latest log call by the overrides, each on behalf of the one before
InitLogger(n) ==
    [logQueue |-> [i \in 1..n |-> i], appended |-> [i \in 1..n |-> i],
     created |-> n, logged |-> 0, calls |-> [c \in LogCalls |-> NoLogCall], flushes |-> {},
     last |-> NoLogResult, settled |-> NoFlush, console |-> "original", chain |-> 0]

LoggerOnly == UNCHANGED <<tier, libAvailable, ui, applied>> /\ FTPStill

\* debug, info, warn, error (lines 163-177) and log, lines 136-143, to the
\* first await
LogCall(c, level) ==
    /\ logger.calls[c].pc = "idle"
    /\ \A b \in LogCalls : b < c => logger.calls[b].pc # "idle"
    /\ IF ~shouldLog(tier, level)
       THEN logger' = [logger EXCEPT !.last = [NoLogResult EXCEPT !.level = level,
                                                                !.outcome = "filtered"]]
       ELSE /\ logger.logged < MaxEvents
            /\ logger' = [logger EXCEPT
                  !.created = @ + 1,
                  !.logged = @ + 1,
                  !.chain = 0,
                  !.calls[c] = [pc |-> IF isDevelopment(tier) \/ level = "error"
                                       THEN "writeToConsole" ELSE "writeToFile",
                                level |-> level, entry |-> logger.created + 1]]
    /\ LoggerOnly

\* setupGlobalErrorHandling, lines 274-283, called by the effect of
\* RootLayout (_layout.tsx, line 40): console.error and console.warn are
\* replaced by functions that call logger.error and logger.warn first
setupGlobalErrorHandling ==
    /\ logger.console = "original"
    /\ logger' = [logger EXCEPT !.console = "overridden"]
    /\ LoggerOnly

\* writeToConsole, lines 50-70: the entry is written with console.warn or
\* console.error, and that function is the override
Reenters(console, t, level) ==
    /\ console = "overridden"
    /\ enableConsoleLogging(t)
    /\ level \in {"warn", "error"}

\* writeToConsole, lines 63-68, under the override (lines 277-285): the
\* console call of log call c calls logger.warn or logger.error, whose log
\* creates an event of the same level and reaches, in the same tick, the
\* same console call on its behalf
ConsoleReenters(c) ==
    /\ logger.calls[c].pc = "writeToConsole"
    /\ Reenters(logger.console, tier, logger.calls[c].level)
    /\ logger.chain < MaxChain
    /\ logger' = [logger EXCEPT !.created = @ + 1,
                                !.chain = @ + 1,
                                !.calls[c].entry = logger.created + 1]
    /\ LoggerOnly

\* log, lines 143-147: writeToConsole has settled
ConsoleWritten(c) ==
    /\ logger.calls[c].pc = "writeToConsole"
    /\ ~Reenters(logger.console, tier, logger.calls[c].level)
    /\ logger' = [logger EXCEPT !.calls[c].pc = "writeToFile"]
    /\ LoggerOnly

\* writeToFile, lines 87-89: a failed write is reported with console.error;
\* under the override (lines 277-280) that is a call of logger.error, whose
\* log creates an event and runs to its first await, in a call slot d
Reported(l, d) ==
    [l EXCEPT !.created = @ + 1,
              !.chain = @ + 1,
              !.calls[d] = [pc |-> "writeToConsole", level |-> "error",
                            entry |-> l.created + 1]]

\* log, lines 147-161, with flush, lines 121-128, when the level is error:
\* writeToFile has settled (it catches its own failures, lines 87-89)
FileWritten(c, ok) ==
    /\ logger.calls[c].pc = "writeToFile"
    /\ \E d \in LogCalls :
          /\ IF ok \/ logger.console = "original"
             THEN d = c
             ELSE /\ logger.calls[d].pc = "idle"
                  /\ \A b \in LogCalls : logger.calls[b].pc = "idle" => d <= b
                  /\ logger.chain < MaxChain
          /\ LET l == IF d = c THEN logger ELSE Reported(logger, d)
                 call == l.calls[c]
                 queue == Pushed(l.logQueue, call.entry)
             IN logger' =
                  IF FlushesImmediately(call.level) /\ queue # <<>>
                  THEN [l EXCEPT !.logQueue = <<>>, !.appended = <<>>,
                                 !.flushes = @ \cup {[by |-> c, logsToFlush |-> queue]},
                                 !.calls[c].pc = "flush"]
                  ELSE [l EXCEPT !.logQueue = queue,
                                 !.appended = Append(@, call.entry),
                                 !.last = [level |-> call.level, entry |-> call.entry,
                                           outcome |-> "queued", handed |-> <<>>],
                                 !.calls[c] = NoLogCall]
    /\ LoggerOnly

\* startFlushTimer, lines 116-118, and flush, lines 121-128: the interval
\* fires (30 s apart, so no earlier timer flush is still in flight)
TimerFlush ==
    /\ logger.logQueue # <<>>
    /\ \A f \in logger.flushes : f.by # Timer
    /\ logger' = [logger EXCEPT !.logQueue = <<>>, !.appended = <<>>,
                                !.flushes = @ \cup {[by |-> Timer,
                                                     logsToFlush |-> logger.logQueue]}]
    /\ LoggerOnly

\* flush, lines 128-134, and the end of log (line 160) when the flush was
\* started by a log call
FlushSettles(f, forwarding) ==
    /\ f \in logger.flushes
    /\ forwarding \in ForwardOutcomes(tier)
    /\ LET rejected == sendToRemoteService(forwarding) = "rejects"
           requeued == IF rejected THEN slice(f.logsToFlush, maxQueueSize \div 2) ELSE <<>>
           l == [logger EXCEPT
                   !.flushes = @ \ {f},
                   !.logQueue = IF rejected THEN Requeue(f.logsToFlush, @) ELSE @,
                   !.settled = [forwarding |-> forwarding, logsToFlush |-> f.logsToFlush,
                                requeued |-> requeued]]
       IN logger' =
            IF f.by = Timer THEN l
            ELSE [l EXCEPT !.last = [level |-> logger.calls[f.by].level,
                                     entry |-> logger.calls[f.by].entry,
                                     outcome |-> "flushed", handed |-> f.logsToFlush],
                           !.calls[f.by] = NoLogCall]
    /\ LoggerOnly

----------------------------------------------------------------------------
(* services/FTPService.ts and services/SecureStorage.ts: the credentials *)

\* the five fields saveCredentials copies (lines 427-431), with their names
\* as characters
CredentialFields == <<"host", "port", "username", "password", "filename">>
KeyChars(field) ==
    CASE field = "host" -> <<"h", "o", "s", "t">>
      [] field = "port" -> <<"p", "o", "r", "t">>
      [] field = "username" -> <<"u", "s", "e", "r", "n", "a", "m", "e">>
      [] field = "password" -> <<"p", "a", "s", "s", "w", "o", "r", "d">>
      [] field = "filename" -> <<"f", "i", "l", "e", "n", "a", "m", "e">>

\* what a field of FTPConfig (lines 17-23, all strings) may hold: the empty
\* string, and strings with the characters JSON gives a meaning to
CredentialValues ==
    {<<>>, <<"a", "\"", "\\">>, <<"\n", ",", "}">>}
FieldNames == {CredentialFields[i] : i \in 1..Len(CredentialFields)}
EndpointConfigs == [FieldNames -> CredentialValues]
\* the config a later updateConfig installs: it differs in every field
otherConfig == [f \in FieldNames |-> <<"d">>]

Platforms == {"web", "native"}

\* JSON.stringify of a string: the quote, the backslash and the line feed
\* are escaped
escapeNothing(ch) == <<ch>>
escape(ch) ==
    IF ch = "\"" THEN <<"\\", "\"">>
    ELSE IF ch = "\\" THEN <<"\\", "\\">>
    ELSE IF ch = "\n" THEN <<"\\", "n">>
    ELSE <<ch>>

RECURSIVE Escaped(_)
Escaped(chars) ==
    IF chars = <<>> THEN <<>> ELSE escape(Head(chars)) \o Escaped(Tail(chars))

Quoted(chars) == <<"\"">> \o Escaped(chars) \o <<"\"">>

RECURSIVE Members(_, _)
Members(object, i) ==
    LET field == CredentialFields[i]
        member == Quoted(KeyChars(field)) \o <<":">> \o Quoted(object[field])
    IN IF i = Len(CredentialFields) THEN member
       ELSE member \o <<",">> \o Members(object, i + 1)

\* JSON.stringify of the object built on lines 426-432
JSONstringify(object) == <<"{">> \o Members(object, 1) \o <<"}">>

CharAt(text, i) == IF i \in 1..Len(text) THEN text[i] ELSE "EOF"
SyntaxError == [error |-> "SyntaxError"]

\* JSON.parse: a string from the character after its opening quote
RECURSIVE ReadString(_, _, _)
ReadString(text, i, read) ==
    LET ch == CharAt(text, i)
        after == CharAt(text, i + 1)
    IN IF ch = "EOF" \/ ch = "\n" THEN SyntaxError
       ELSE IF ch = "\"" THEN [value |-> read, next |-> i + 1]
       ELSE IF ch = "\\"
       THEN (IF after = "\"" \/ after = "\\"
             THEN ReadString(text, i + 2, Append(read, after))
             ELSE IF after = "n" THEN ReadString(text, i + 2, Append(read, "\n"))
             ELSE SyntaxError)
       ELSE ReadString(text, i + 1, Append(read, ch))

\* JSON.parse: the members of an object from the opening quote of a key; a
\* key that comes again replaces the earlier value
RECURSIVE ReadMembers(_, _, _)
ReadMembers(text, i, object) ==
    IF CharAt(text, i) # "\"" THEN SyntaxError
    ELSE LET key == ReadString(text, i + 1, <<>>)
         IN IF key = SyntaxError THEN SyntaxError
            ELSE IF CharAt(text, key.next) # ":" \/ CharAt(text, key.next + 1) # "\""
            THEN SyntaxError
            ELSE LET val == ReadString(text, key.next + 2, <<>>)
                 IN IF val = SyntaxError THEN SyntaxError
                    ELSE LET found == [k \in DOMAIN object \cup {key.value} |->
                                          IF k = key.value THEN val.value ELSE object[k]]
                         IN IF CharAt(text, val.next) = ","
                            THEN ReadMembers(text, val.next + 1, found)
                            ELSE IF CharAt(text, val.next) = "}" /\ val.next = Len(text)
                            THEN found
                            ELSE SyntaxError

JSONparse(text) ==
    IF CharAt(text, 1) # "{" THEN SyntaxError ELSE ReadMembers(text, 2, <<>>)

\* SecureStorage.ts, lines 24 and 39, 51 and 61: the key an item is kept under
StoreKey(platform, key) == IF platform = "web" THEN <<"secure_", key>> ELSE <<key>>
StoreKeys == {StoreKey(p, "ftp_credentials") : p \in Platforms}
Null == [null |-> TRUE]

----------------------------------------------------------------------------
(* Functions applied on their own *)

\* no function is being applied on its own
NoApplication == [f |-> "none"]

\* the rest of the program stands still
OnlyApplied == UNCHANGED <<tier, libAvailable, ui, logger>> /\ FTPStill

\* what getInfoAsync can report, around both boundaries of validateFile
ValidateInfos(t) ==
    {[exists |-> FALSE, size |-> 0]} \cup
    {[exists |-> TRUE, size |-> z] :
        z \in {0, 1, maxFileSize(t) - 1, maxFileSize(t), maxFileSize(t) + 1}}

\* validateFile (lines 169-194) applied to one report of getInfoAsync under
\* one configured filename: what it throws, and whether it called logger.warn
ApplyValidateFile ==
    /\ applied.f = "validateFile"
    /\ ~applied.done
    /\ applied' = [applied EXCEPT
            !.done = TRUE,
            !.out = validateFile(tier, applied.info),
            !.warned = /\ validateFile(tier, applied.info) = "ok"
                       /\ \E e \in validateFileLogs(tier, applied.filename) :
                              e.level = "warn"]
    /\ OnlyApplied

\* downloadFile, lines 215-218, applied to one reading of the clock under one
\* configured filename
ApplyLocalFileName ==
    /\ applied.f = "localFileName"
    /\ ~applied.done
    /\ applied' = [applied EXCEPT
            !.done = TRUE,
            !.out = localFileName(applied.timestamp, applied.filename)]
    /\ OnlyApplied

\* retryOperation (lines 94-131) with its maxRetries parameter, around an
\* operation that fails: the catch block, waiting the delay when another
\* attempt follows (lines 120-123), else the final throw (lines 127-130)
RetryAttemptFails ==
    /\ applied.f = "retryOperation"
    /\ applied.pc = "running"
    /\ applied' = IF WaitsBefore(applied.attempt, applied.max)
                  THEN [applied EXCEPT !.pc = "waiting",
                                       !.waits = Append(@, backoffDelay(applied.attempt))]
                  ELSE [applied EXCEPT !.pc = "threw"]
    /\ OnlyApplied

\* retryOperation, lines 101-104: the timer fires and the next attempt starts
RetryWaitElapses ==
    /\ applied.f = "retryOperation"
    /\ applied.pc = "waiting"
    /\ applied' = [applied EXCEPT !.pc = "running", !.attempt = @ + 1]
    /\ OnlyApplied

\* retryOperation, lines 104-110: the operation resolves
RetryAttemptSucceeds ==
    /\ applied.f = "retryOperation"
    /\ applied.pc = "running"
    /\ applied' = [applied EXCEPT !.pc = "returned"]
    /\ OnlyApplied

\* processDataForCharts (lines 265-338) applied to one grid
ApplyProcessDataForCharts ==
    /\ applied.f = "processDataForCharts"
    /\ ~applied.done
    /\ applied' = [applied EXCEPT !.done = TRUE,
                                  !.out = processDataForCharts(applied.rawData)]
    /\ OnlyApplied

\* saveCredentials, lines 424-445, with SecureStorage.setItem, lines 20-45:
\* the item is written, or the write fails and saveCredentials throws
ApplySaveCredentials(ok) ==
    /\ applied.f = "credentials"
    /\ applied.pc = "start"
    /\ LET credentials == [f \in DOMAIN applied.config |-> applied.config[f]]
           key == StoreKey(applied.platform, "ftp_credentials")
       IN applied' =
            IF ok THEN [applied EXCEPT !.pc = "saved", !.saved = applied.config,
                                       !.store[key] = JSONstringify(credentials)]
            ELSE [applied EXCEPT !.pc = "save failed"]
    /\ OnlyApplied

\* updateConfig, line 394, after the save
ApplyUpdateConfig ==
    /\ applied.f = "credentials"
    /\ applied.pc = "saved"
    /\ applied.config # otherConfig
    /\ applied' = [applied EXCEPT !.config = otherConfig]
    /\ OnlyApplied

\* loadCredentials, lines 447-467, with SecureStorage.getItem, lines 47-67:
\* a failed read yields null, and so does text that does not parse
ApplyLoadCredentials(ok) ==
    /\ applied.f = "credentials"
    /\ applied.pc = "saved"
    /\ LET key == StoreKey(applied.platform, "ftp_credentials")
           credentialsJson == IF ok THEN applied.store[key] ELSE Null
           parsed == IF credentialsJson = Null THEN Null ELSE JSONparse(credentialsJson)
       IN applied' = [applied EXCEPT
                        !.pc = "loaded",
                        !.readOk = ok,
                        !.loaded = IF parsed = SyntaxError THEN Null ELSE parsed]
    /\ OnlyApplied

----------------------------------------------------------------------------
(* Specifications *)

\* FTPService.ts lines 11-15 (module load) and the constructor (line 44)
ServiceInit ==
    /\ tier \in Tiers
    /\ libAvailable \in BOOLEAN
    /\ calls = [c \in Calls |-> NoCall]
    /\ ftpClient = NoHandle
    /\ ftpConfig = 1
    /\ connectionMetrics = <<>>
    /\ open = {}
    /\ discCalled = {}
    /\ discPending = {}
    /\ emitted = Logged(0, {Ev("info", "FTPService initialized")} \cup
                    (IF libAvailable THEN {}
                     ELSE {Ev("warn", "react-native-ftp not available, using fallback implementation")}))
    /\ ui = InitUI

ProgramInit == ServiceInit /\ logger = InitLogger(0)

Init == ProgramInit /\ applied = NoApplication

InitValidate ==
    /\ ProgramInit
    /\ \E info \in ValidateInfos(tier), name \in Filenames :
          applied = [f |-> "validateFile", done |-> FALSE, info |-> info,
                     filename |-> name, out |-> "none", warned |-> FALSE]

NextValidate == ApplyValidateFile

InitCharts ==
    /\ ProgramInit
    /\ \E rawData \in RowGrids :
          applied = [f |-> "processDataForCharts", done |-> FALSE,
                     rawData |-> rawData, out |-> NoSeries("none")]

NextCharts == ApplyProcessDataForCharts

\* processDataForCharts on its own, over the grids above
SpecCharts == InitCharts /\ [][NextCharts]_vars

InitRetry ==
    /\ ProgramInit
    /\ \E max \in 1..MaxAttempts :
          applied = [f |-> "retryOperation", max |-> max, attempt |-> 1,
                     pc |-> "running", waits |-> <<>>]

NextRetry ==
    \/ RetryAttemptFails
    \/ RetryWaitElapses
    \/ RetryAttemptSucceeds

\* retryOperation on its own, for every maxRetries up to MaxAttempts
SpecRetry == InitRetry /\ [][NextRetry]_vars

\* validateFile on its own, over the reports and filenames above
SpecValidate == InitValidate /\ [][NextValidate]_vars

NextFTP ==
    \/ \E c \in Calls, op \in Ops, path \in LocalPaths \cup {"none"} : StartCall(c, op, path)
    \/ \E c \in Calls : ConnectOk(c)
    \/ \E c \in Calls : ConnectFail(c)
    \/ \E c \in Calls : TestListOk(c)
    \/ \E c \in Calls : TestListFail(c)
    \/ \E c \in Calls, ok \in BOOLEAN : TestDisconnected(c, ok)
    \/ \E c \in Calls : GetOk(c)
    \/ \E c \in Calls : GetFail(c)
    \/ \E c \in Calls, info \in FileInfos(tier) : Validate(c, info)
    \/ \E c \in Calls : Downloaded(c)
    \/ \E c \in Calls, ok \in BOOLEAN : ListSettles(c, ok)
    \/ \E c \in Calls, exists \in BOOLEAN : UploadStat(c, exists)
    \/ \E c \in Calls, ok \in BOOLEAN : PutSettles(c, ok)
    \/ \E c \in Calls, ok \in BOOLEAN : FinallyDisconnected(c, ok)
    \/ \E c \in Calls : MockDelay(c)
    \/ \E c \in Calls, ok \in BOOLEAN : MockWrite(c, ok)
    \/ \E c \in Calls : MockList(c)
    \/ \E c \in Calls : Backoff(c)
    \/ \E c \in Calls, newConfig \in Configs : UpdateConfigCall(c, newConfig)
    \/ \E h \in Handles, ok \in BOOLEAN : UpdateConfigDisconnected(h, ok)

\* Concurrent callers: up to MaxCalls calls (updateConfig among them)
\* interleave at their awaits.
SpecFTP == Init /\ [][NextFTP]_vars

NextUI ==
    \/ Mount
    \/ \E k \in Cycles : LoadConfigDone(k)
    \/ \E k \in Cycles : IntervalTick(k)
    \/ \E k \in Cycles : RefreshButton(k)
    \/ \E k \in Cycles : PullToRefresh(k)
    \/ ToggleAutoRefresh
    \/ TestButton
    \/ \E outcome \in TestOutcomes : TestButtonSettles(outcome)
    \/ \E k \in Cycles, outcome \in TestOutcomes : CycleTestSettles(k, outcome)
    \/ \E k \in Cycles, info \in FileInfos(tier), outcome \in {"real", "mock", "throws"} :
            CycleDownloadSettles(k, info, outcome)
    \/ \E k \in Cycles, info \in FileInfos(tier) : ParseStat(k, info)
    \/ \E k \in Cycles, content \in Contents, xlsxOk \in BOOLEAN, file \in Files :
            ParseRead(k, content, xlsxOk, file)
    \/ \E k \in Cycles, ok \in BOOLEAN : Cleanup(k, ok)

\* The DataDisplay screen: timers, buttons and up to MaxCycles fetch cycles.
SpecUI == Init /\ [][NextUI]_vars

\* One caller making one call (with updateConfig free to interleave).
NextOne ==
    \/ \E op \in Ops, path \in LocalPaths \cup {"none"} : StartCall(1, op, path)
    \/ ConnectOk(1)
    \/ ConnectFail(1)
    \/ TestListOk(1)
    \/ TestListFail(1)
    \/ \E ok \in BOOLEAN : TestDisconnected(1, ok)
    \/ GetOk(1)
    \/ GetFail(1)
    \/ \E info \in FileInfos(tier) : Validate(1, info)
    \/ Downloaded(1)
    \/ \E ok \in BOOLEAN : ListSettles(1, ok)
    \/ \E exists \in BOOLEAN : UploadStat(1, exists)
    \/ \E ok \in BOOLEAN : PutSettles(1, ok)
    \/ \E ok \in BOOLEAN : FinallyDisconnected(1, ok)
    \/ MockDelay(1)
    \/ \E ok \in BOOLEAN : MockWrite(1, ok)
    \/ MockList(1)
    \/ Backoff(1)
    \/ \E newConfig \in Configs : updateConfig(newConfig)
    \/ \E h \in Handles, ok \in BOOLEAN : UpdateConfigDisconnected(h, ok)
    \/ clearMetrics

SpecOne == Init /\ [][NextOne]_vars

InitLog ==
    /\ ServiceInit
    /\ applied = NoApplication
    /\ logger \in {InitLogger(n) :
                      n \in IF isDevelopment(tier) THEN {0, Preloaded} ELSE {0}}

NextLog ==
    \/ \E c \in LogCalls, level \in LogLevels : LogCall(c, level)
    \/ \E c \in LogCalls : ConsoleWritten(c)
    \/ \E c \in LogCalls, ok \in BOOLEAN : FileWritten(c, ok)
    \/ TimerFlush
    \/ \E f \in logger.flushes, forwarding \in {"disabled", "sent", "failed"} :
          FlushSettles(f, forwarding)

SpecLog == InitLog /\ [][NextLog]_vars

InitConsole ==
    /\ ServiceInit
    /\ applied = NoApplication
    /\ logger = InitLogger(0)

NextConsole ==
    \/ setupGlobalErrorHandling
    \/ \E c \in LogCalls, level \in LogLevels : LogCall(c, level)
    \/ \E c \in LogCalls : ConsoleReenters(c)
    \/ \E c \in LogCalls : ConsoleWritten(c)
    \/ \E c \in LogCalls, ok \in BOOLEAN : FileWritten(c, ok)
    \/ TimerFlush
    \/ \E f \in logger.flushes, forwarding \in {"disabled", "sent", "failed"} :
          FlushSettles(f, forwarding)

SpecConsole == InitConsole /\ [][NextConsole]_vars

InitPath ==
    /\ ProgramInit
    /\ \E timestamp \in 1..MaxMillis, name \in Filenames :
          applied = [f |-> "localFileName", done |-> FALSE, timestamp |-> timestamp,
                     filename |-> name, out |-> localFileName(0, <<>>)]

NextPath == ApplyLocalFileName

SpecPath == InitPath /\ [][NextPath]_vars

InitCredentials ==
    /\ ProgramInit
    /\ \E platform \in Platforms, config \in EndpointConfigs :
          applied = [f |-> "credentials", pc |-> "start", platform |-> platform,
                     config |-> config, saved |-> Null, readOk |-> FALSE,
                     store |-> [k \in StoreKeys |-> Null], loaded |-> Null]

NextCredentials ==
    \/ \E ok \in BOOLEAN : ApplySaveCredentials(ok)
    \/ ApplyUpdateConfig
    \/ \E ok \in BOOLEAN : ApplyLoadCredentials(ok)

SpecCredentials == InitCredentials /\ [][NextCredentials]_vars

----------------------------------------------------------------------------
(* Claims about the retry engine and the transfer client *)

Terminal(c) == calls[c].pc \in {"returned", "threw"}

AllFailed(c) == \A i \in 1..Len(calls[c].outcomes) : calls[c].outcomes[i] = "fail"

\* attempt a of call c has returned or thrown
AttemptEnded(c, a) ==
    \/ calls[c].attempt > a
    \/ calls[c].attempt = a /\ calls[c].pc \in {"backoff", "returned", "threw"}

\* connect succeeded on no handle of call c
NeverConnected(c) ==
    \A a \in 1..maxRetries : Handle(c, a) \notin (open \cup discCalled)

\* C1: retryOperation invokes the operation at most maxRetries times; when
\* every attempt fails it has invoked it exactly maxRetries times and throws;
\* when attempt k is the first to succeed it has invoked it exactly k times,
\* makes no further attempt, and returns the result of attempt k.
C1_RetryInvocations ==
    \A c \in Calls :
        LET r == calls[c]
            n == Len(r.outcomes)
        IN r.op \in Ops =>
            /\ n <= maxRetries
            /\ r.attempt <= maxRetries
            /\ r.pc = "threw" => n = maxRetries /\ AllFailed(c)
            /\ r.pc = "returned" =>
                    /\ r.outcomes[n] = "ok"
                    /\ \A i \in 1..(n - 1) : r.outcomes[i] = "fail"
                    /\ r.attempt = n
                    /\ r.result.call = c /\ r.result.attempt = n
            /\ (\E i \in 1..n : r.outcomes[i] = "ok") => r.pc = "returned"

\* a call that succeeded on its last permitted attempt
C1_Witness ==
    \E c \in Calls :
        /\ calls[c].pc = "returned"
        /\ calls[c].outcomes = <<"fail", "fail", "ok">>

\* C2 (as claimed): once an attempt has returned or thrown, every handle it
\* connected has had disconnect called on it.
C2_DisconnectOnEveryExit ==
    \A c \in Calls : \A a \in 1..maxRetries :
        (AttemptEnded(c, a) /\ Handle(c, a) \in open) => Handle(c, a) \in discCalled

\* C3 (as claimed): with every connect failing, testConnection returns false
\* (it does not throw) after exactly maxRetries attempts, and exactly
\* maxRetries metrics with success = FALSE have been appended.
C3_TestConnectionReturnsFalse ==
    \A c \in Calls :
        (calls[c].op = "testConnection" /\ libAvailable /\ Terminal(c)
            /\ NeverConnected(c)) =>
            /\ calls[c].pc = "returned"
            /\ calls[c].result.kind = "false"
            /\ Len(calls[c].outcomes) = maxRetries
            /\ Len(connectionMetrics) = maxRetries
            /\ \A i \in 1..Len(connectionMetrics) : ~connectionMetrics[i].success

\* C4 (as claimed): with the library available, a downloadFile whose attempts
\* all failed yields synthetic data instead of an error.
C4_FallbackAfterRetries ==
    \A c \in Calls :
        (calls[c].op = "downloadFile" /\ libAvailable /\ Terminal(c)
            /\ Len(calls[c].outcomes) = maxRetries /\ AllFailed(c)) =>
            /\ calls[c].pc = "returned"
            /\ calls[c].result.kind = "mock"

\* C5 (as claimed): a downloadFile call that returned mock data has emitted,
\* during the call, an event of severity warn or above that flags the data
\* as synthetic and passed the threshold of the tier.
C5_SyntheticFlagged ==
    \A c \in Calls :
        (calls[c].op = "downloadFile" /\ calls[c].pc = "returned"
            /\ calls[c].result.kind = "mock") =>
            \E e \in emitted :
                /\ e.call = c
                /\ e.synthetic
                /\ levelIndex(e.level) >= levelIndex("warn")

\* C7 (as claimed): at most one connected, not yet disconnected handle
\* exists at any moment.
C7_OneHandle == Cardinality(open) <= 1

ValidationErrors ==
    {"Downloaded file does not exist", "Downloaded file is empty",
     "File size exceeds maximum allowed size"}

\* C9 (as claimed): a validation failure is not retried: once an attempt has
\* failed validation the call has thrown that error, with no wait and no
\* further attempt.
C9_ValidationNotRetried ==
    \A c \in Calls :
        calls[c].lastError \in ValidationErrors =>
            /\ calls[c].pc = "threw"
            /\ calls[c].error = calls[c].lastError

\* C12 (as claimed): the handle updateConfig disconnects is no longer
\* connected once the new configuration is in place: no handle whose
\* disconnect updateConfig started is still connected.
C12_DisconnectBeforeInstall == discPending \cap open = {}

\* C13 (as claimed): listFiles never fails towards its caller: a listFiles
\* call that has ended returned (an empty list when every attempt failed).
C13_ListFilesNeverThrows ==
    \A c \in Calls :
        (calls[c].op = "listFiles" /\ Terminal(c)) =>
            /\ calls[c].pc = "returned"
            /\ AllFailed(c) => calls[c].result.kind = "emptyList"

\* C14 (as claimed): an uploadFile call for a local path that does not exist
\* never connects and never returns true, with or without the library.
C14_UploadChecksLocalFile ==
    \A c \in Calls :
        (calls[c].op = "uploadFile" /\ calls[c].localPath = "absent") =>
            /\ NeverConnected(c)
            /\ ~(calls[c].pc = "returned" /\ calls[c].result.kind = "true")

\* C16 (as claimed): the error retryOperation throws after maxRetries failed
\* attempts carries the attempt count.
C16_ErrorCarriesAttemptCount ==
    \A c \in Calls :
        (calls[c].op \in Ops /\ calls[c].pc = "threw") =>
            CarriesAttemptCount(calls[c].error)

\* Claim C30: the transport calls of one download attempt use the
\* EndpointConfig in effect when the attempt started: the filename fetched
\* is that config's, and the handle of the attempt is not disconnected
\* (by updateConfig) before the attempt itself disconnects it.
C30_AttemptKeepsItsConfig ==
    \A c \in Calls :
        calls[c].op = "downloadFile" =>
            /\ calls[c].fetched # 0 => calls[c].fetched = calls[c].config
            /\ (calls[c].client # NoHandle /\ calls[c].pc # "finally_disc") =>
                    calls[c].client \notin discCalled

\* Claim C31: the retry engine's maximum attempt count is the retry attempt
\* count configured for the active tier, a call whose attempts all fail has
\* made that many, and the connect timeout is the tier's connection timeout.
C31_SettingsFollowTier ==
    /\ maxRetries = retryAttempts(tier)
    /\ connectionTimeout = ftpConnectionTimeout(tier)
    /\ \A c \in Calls :
           (calls[c].pc = "threw" /\ AllFailed(c)) =>
               Len(calls[c].outcomes) = retryAttempts(tier)

\* the latest attempt of call c has returned or thrown
LatestEnded(c) ==
    /\ calls[c].pc \in {"backoff", "returned", "threw"}
    /\ Len(calls[c].outcomes) > 0

\* Claim C32: connectionMetrics changes only by an append at its end or by
\* clearMetrics emptying it, and every ended downloadFile attempt, real or
\* mock, has appended exactly one entry, whose success flag is the attempt's
\* outcome.
C32_MetricsPerAttempt ==
    /\ [][\/ connectionMetrics' = connectionMetrics
          \/ /\ Len(connectionMetrics') = Len(connectionMetrics) + 1
             /\ SubSeq(connectionMetrics', 1, Len(connectionMetrics)) =
                    connectionMetrics
          \/ connectionMetrics' = <<>>]_vars
    /\ [](\A c \in Calls :
            (calls[c].op = "downloadFile" /\ LatestEnded(c)) =>
                calls[c].pushed =
                    <<calls[c].outcomes[Len(calls[c].outcomes)] = "ok">>)

\* Claim C33: whatever the disconnect of a download, list or upload attempt
\* settles with, the attempt whose transfer succeeded returns its result and
\* the attempt that failed is rejected with its own error.
C33_DisconnectKeepsOutcome ==
    [][\A c \in Calls :
          (calls[c].pc = "finally_disc" /\ calls'[c] # calls[c]) =>
              LET n == Len(calls'[c].outcomes)
              IN /\ n = Len(calls[c].outcomes) + 1
                 /\ IF calls[c].pending = "return"
                    THEN /\ calls'[c].outcomes[n] = "ok"
                         /\ calls'[c].pc = "returned"
                         /\ calls'[c].result = calls[c].result
                    ELSE /\ calls'[c].outcomes[n] = "fail"
                         /\ calls'[c].lastError = calls[c].pending]_vars

\* a list or an upload succeeded on the first attempt, the disconnect that
\* followed failed (its warning is the only one such a call logs), and the
\* call returned the transfer's result
C33_Witness ==
    \E c \in Calls :
        /\ calls[c].op \in {"listFiles", "uploadFile"}
        /\ calls[c].pc = "returned"
        /\ calls[c].outcomes = <<"ok">>
        /\ calls[c].result.kind \in {"fileList", "true"}
        /\ [call |-> c, level |-> "warn", synthetic |-> FALSE] \in emitted

----------------------------------------------------------------------------
(* Claims about the backoff *)

\* the delays the claim lists: 1000, 2000, 4000, 8000, then 10000 for ever
ListedDelay(n) ==
    CASE n = 1 -> 1000 [] n = 2 -> 2000 [] n = 3 -> 4000 [] n = 4 -> 8000
      [] OTHER -> 10000

\* C15: the wait after failed attempt n (n < maxRetries) is
\* min(1000 * 2^(n-1), 10000) ms, that is 1000, 2000, 4000, 8000, 10000,
\* 10000, ...; no wait exceeds 10000 ms; and no wait follows the final failed
\* attempt (a call that threw made maxRetries attempts and maxRetries - 1
\* waits).
C15_BackoffDelays ==
    applied.f = "retryOperation" =>
        /\ \A n \in 1..Len(applied.waits) :
              /\ applied.waits[n] = ListedDelay(n)
              /\ applied.waits[n] <= 10000
        /\ Len(applied.waits) <= applied.max - 1
        /\ applied.pc = "waiting" => Len(applied.waits) = applied.attempt
        /\ applied.pc \in {"running", "returned", "threw"} =>
              Len(applied.waits) = applied.attempt - 1
        /\ applied.pc = "threw" => applied.attempt = applied.max

\* every attempt failed under a maxRetries large enough to reach the cap
C15_Witness ==
    /\ applied.f = "retryOperation"
    /\ applied.pc = "threw"
    /\ Len(applied.waits) >= 5
    /\ applied.waits[5] = 10000

----------------------------------------------------------------------------
(* Claims about file validation *)

\* C11: validateFile fails with not-found when the file is absent; otherwise
\* with empty when its size is 0; otherwise with too-large exactly when the
\* size exceeds maxFileSize (a file of exactly maxFileSize passes); otherwise
\* it succeeds. An extension outside the accepted set never makes it fail: a
\* warning is logged only by a validation that passed, and a validation that
\* passed under a non-empty unaccepted extension has logged it.
C11_ValidateFileOrder ==
    (applied.f = "validateFile" /\ applied.done) =>
        LET i == applied.info
            r == applied.out
        IN /\ ~i.exists => r = "Downloaded file does not exist"
           /\ (i.exists /\ i.size = 0) => r = "Downloaded file is empty"
           /\ (i.exists /\ i.size # 0) =>
                 /\ r = "File size exceeds maximum allowed size" <=> i.size > maxFileSize(tier)
                 /\ i.size <= maxFileSize(tier) => r = "ok"
           /\ applied.warned => r = "ok"
           /\ (r = "ok" /\ UnsupportedExtension(tier, applied.filename)) => applied.warned

\* a file of exactly maxFileSize under an unaccepted extension: passed, warned
C11_Witness ==
    /\ applied.f = "validateFile" /\ applied.done
    /\ applied.info.exists /\ applied.info.size = maxFileSize(tier)
    /\ applied.out = "ok"
    /\ applied.warned

\* the name has a suffix: it contains a dot and does not end with one
HasSuffix(name) ==
    /\ \E i \in 1..Len(name) : name[i] = "."
    /\ name[Len(name)] # "."

\* Claim C35: the local file of a real download is named
\* downloaded_<millis>.<ext>, where <ext> is the text after the last dot of
\* the configured filename, and xlsx when that filename has no suffix (it
\* contains no dot or ends with one).
C35_LocalFileName ==
    (applied.f = "localFileName" /\ applied.done) =>
        /\ applied.out.stem = "downloaded_"
        /\ applied.out.timestamp = applied.timestamp
        /\ applied.out.dot = "."
        /\ applied.out.fileExtension =
               IF HasSuffix(applied.filename) THEN LastSegment(applied.filename)
               ELSE <<"x", "l", "s", "x">>

----------------------------------------------------------------------------
(* Claims about the chart model *)

\* processDataForCharts was applied and produced a chart model
ChartBuilt ==
    applied.f = "processDataForCharts" /\ applied.done /\ applied.out.status = "ok"

\* C17: every chart model processDataForCharts produces has at least 1 and at
\* most 4 datasets, and every dataset has exactly one value per label, the
\* labels being one per retained (non-empty) data row.
C17_DatasetBounds ==
    ChartBuilt =>
        /\ Len(applied.out.datasets) >= 1
        /\ Len(applied.out.datasets) <= 4
        /\ Len(applied.out.labels) = Len(DataRows(applied.rawData))
        /\ \A d \in 1..Len(applied.out.datasets) :
              Len(applied.out.datasets[d].data) = Len(applied.out.labels)

\* a header with more than four data columns, all of them non-zero
C17_Witness ==
    /\ ChartBuilt
    /\ Len(applied.rawData[1]) > 5
    /\ Len(applied.out.datasets) = 4

\* processDataForCharts was applied and returned or threw
ChartDone == applied.f = "processDataForCharts" /\ applied.done

\* the length of the header of the grid (0 for a grid without rows)
HeaderCount(rawData) == IF Len(rawData) = 0 THEN 0 ELSE Len(rawData[1])

\* the data columns the claim names: i in 1..min(headerCount - 1, 4) with a
\* non-zero coerced value in some retained row
InformativeColumns(rawData) ==
    {i \in 1..4 :
        /\ i <= HeaderCount(rawData) - 1
        /\ \E k \in 1..Len(DataRows(rawData)) :
              Coerce(At(DataRows(rawData)[k], i)) # 0}

\* C18 (as claimed): the datasets are exactly the informative columns, in
\* increasing column order, and the build fails with NoNumericData exactly
\* when there is no informative column, in particular for every grid whose
\* header has length 1.
C18_DatasetsAreInformativeColumns ==
    ChartDone =>
        LET out == applied.out
            cols == InformativeColumns(applied.rawData)
        IN /\ out.status = "ok" =>
                 /\ {out.datasets[d].column : d \in 1..Len(out.datasets)} = cols
                 /\ \A d, e \in 1..Len(out.datasets) :
                       d < e => out.datasets[d].column < out.datasets[e].column
           /\ out.status = "No numeric data columns found" <=> cols = {}
           /\ HeaderCount(applied.rawData) = 1 =>
                 out.status = "No numeric data columns found"

\* C18 (amended): the datasets are exactly the informative columns, in
\* increasing column order. A grid of fewer than 2 rows fails with
\* "Insufficient data" and a grid without a non-empty data row fails with
\* "No data rows found"; every other grid fails with NoNumericData exactly
\* when it has no informative column, in particular when its header has
\* length 1.
C18_DatasetsAreInformativeColumnsAmended ==
    ChartDone =>
        LET out == applied.out
            cols == InformativeColumns(applied.rawData)
        IN /\ out.status = "ok" =>
                 /\ {out.datasets[d].column : d \in 1..Len(out.datasets)} = cols
                 /\ \A d, e \in 1..Len(out.datasets) :
                       d < e => out.datasets[d].column < out.datasets[e].column
           /\ Len(applied.rawData) < 2 => out.status = "Insufficient data"
           /\ (Len(applied.rawData) >= 2 /\ Len(DataRows(applied.rawData)) = 0) =>
                 out.status = "No data rows found"
           /\ (Len(applied.rawData) >= 2 /\ Len(DataRows(applied.rawData)) > 0) =>
                 /\ out.status = "No numeric data columns found" <=> cols = {}
                 /\ HeaderCount(applied.rawData) = 1 =>
                       out.status = "No numeric data columns found"

\* a column whose only non-zero value is in the last row is kept while an
\* all-zero column beside it is dropped
C18_Witness ==
    /\ ChartBuilt
    /\ HeaderCount(applied.rawData) = 3
    /\ Len(applied.out.datasets) = 1
    /\ applied.out.datasets[1].column = 2
    /\ applied.out.datasets[1].data = <<0, Whole(5)>>

\* the cells the claim calls numeric: numbers, and strings that spell one
NumericCell(cell) ==
    \/ cell.t = "number"
    \/ cell.t = "string" /\ cell.s # "" /\ ~StringToNumber(cell.s).nan

\* the number a numeric cell holds
CellNumber(cell) == IF cell.t = "number" THEN cell.n ELSE StringToNumber(cell.s).v

\* C19 (as claimed): in the chart model a numeric cell is its number and
\* every other cell is 0, and the grid [[Month,Sales],[Jan,100],[Feb,bad],
\* [Mar,300]] gives labels [Jan,Feb,Mar], the one dataset [100,0,300] and
\* the proportional values [100,1,300].
C19_CellCoercion ==
    ChartBuilt =>
        LET out == applied.out
            rows == DataRows(applied.rawData)
        IN /\ \A d \in 1..Len(out.datasets) : \A k \in 1..Len(rows) :
                 LET cell == At(rows[k], out.datasets[d].column)
                 IN out.datasets[d].data[k] =
                        IF NumericCell(cell) THEN CellNumber(cell) ELSE 0
           /\ applied.rawData = ScenarioA =>
                 /\ [k \in 1..Len(out.labels) |-> out.labels[k].text] = <<"Jan", "Feb", "Mar">>
                 /\ Len(out.datasets) = 1
                 /\ out.datasets[1].data = <<Whole(100), 0, Whole(300)>>
                 /\ out.pie = <<Whole(100), Whole(1), Whole(300)>>

\* C20 (as claimed): the proportional breakdown has one entry per label,
\* taken from the first dataset, each max(|v|, 1): no entry is below 1.
C20_PieFlooredAtOne ==
    ChartBuilt =>
        LET out == applied.out
        IN /\ Len(out.pie) = Len(out.labels)
           /\ \A k \in 1..Len(out.pie) :
                 LET v == Abs(out.datasets[1].data[k])
                 IN /\ out.pie[k] = IF v < Whole(1) THEN Whole(1) ELSE v
                    /\ out.pie[k] >= Whole(1)

----------------------------------------------------------------------------
(* Claims about the fetch cycle *)

\* C6 (as claimed): at most one fetch cycle is in flight at any time.
C6_SingleCycle == Cardinality(InFlight) <= 1

\* C8 (as claimed): the status starts at Disconnected and is Disconnected
\* whenever no operation is in flight.
C8_RestsDisconnected ==
    (InFlight = {} /\ ~ui.testing) => ui.connectionStatus = "disconnected"

\* what a cycle did, in flight or as it ended
CycleRecords == {ui.cycles[k] : k \in Cycles} \cup {ui.last}

\* C10: in a fetch cycle the file is read and decoded only after the checks
\* on it (exists, non-empty, within the ceiling) have passed, and a cycle in
\* which the file was reported with size 0 never reads it, never runs the
\* spreadsheet decode and never runs the CSV split, for real and for mock
\* downloads alike.
C10_ValidationBeforeParse ==
    \A c \in CycleRecords :
        /\ (c.contentRead \/ c.decoded \/ c.csvSplit) => c.statOk
        /\ c.sawEmpty => ~c.contentRead /\ ~c.decoded /\ ~c.csvSplit

\* a mock download whose file was reported empty: the cycle failed unread
C10_Witness ==
    /\ ui.last.pc = "failed"
    /\ ui.last.source = "mock"
    /\ ui.last.sawEmpty
    /\ ~ui.last.decoded

\* the chart model, the proportional data and the data rows on display
Displayed(u) == <<u.chartData, u.pieData, u.data>>

\* the step ends a cycle in the catch block of fetchAndProcessData
CycleFails ==
    /\ ui'.last.pc = "failed"
    /\ \E k \in Cycles : ui.cycles[k].pc # "idle" /\ ui'.cycles[k].pc = "idle"

\* Claim C21: a fetch cycle that fails (in download, validation, parse or
\* series building) leaves the displayed chart model, proportional data and
\* data rows as they were; they change only in the step in which series
\* building succeeds, and then all three together.
C21_FailureKeepsDisplay ==
    [][/\ CycleFails => Displayed(ui') = Displayed(ui)
       /\ Displayed(ui') # Displayed(ui) =>
            \E k \in Cycles : /\ ui.cycles[k].pc = "parse_read"
                              /\ ui'.cycles[k].pc = "cleanup"
                              /\ Displayed(ui') = <<k, k, k>>]_vars

\* a cycle has failed while the chart of an earlier cycle is on display
C21_Witness ==
    /\ ui.last.pc = "failed"
    /\ ui.last.decoded
    /\ Displayed(ui) \in {<<k, k, k>> : k \in Cycles}


\* Claim C26: a failed cycle shows the alert when it is the first failed
\* cycle of the session or follows 3 or more consecutive failed cycles, and
\* no other failed refresh cycle shows it.
C26_AlertPolicy ==
    [][CycleFails =>
         LET due == ~ui.everFailed \/ ui.failures >= AlertAfter
         IN ui'.last.alerted <=> due]_vars

\* the step that follows each step of a cycle when it succeeded: the
\* connectivity test, the download (with the service's validation), the
\* checks of parseXLSFile, the read with decode and series building, and
\* the deletion of the file
StepOrder ==
    {<<"idle", "test">>, <<"test", "download">>, <<"download", "parse_stat">>,
     <<"parse_stat", "parse_read">>, <<"parse_read", "cleanup">>,
     <<"cleanup", "idle">>}

\* what a cycle waiting in a step has behind it
StepsBehind(c) ==
    /\ c.pc \in {"parse_stat", "parse_read", "cleanup"} => c.source \in {"real", "mock"}
    /\ c.pc \in {"parse_read", "cleanup"} => c.statOk /\ c.contentRead /\ ~c.sawEmpty
    /\ c.pc = "cleanup" => c.decoded
    /\ c.pc \in {"test", "download", "parse_stat"} => ~c.contentRead /\ ~c.decoded
    /\ c.pc \in {"test", "download"} => c.source = "none" /\ ~c.statOk

\* Claim C27: a cycle runs the connectivity test, the download, the
\* validation, the parse, the series building and the deletion of the file
\* in that order, each after the one before it has finished, and a failed
\* download, validation, parse or series building ends the cycle with no
\* later step run.
C27_StepsInOrder ==
    [][\A k \in Cycles :
         /\ StepsBehind(ui'.cycles[k])
         /\ ui'.cycles[k].pc # ui.cycles[k].pc =>
              \/ <<ui.cycles[k].pc, ui'.cycles[k].pc>> \in StepOrder
                    /\ (ui.cycles[k].pc = "cleanup" => ui'.last.pc = "done")
              \/ /\ ui.cycles[k].pc \in {"download", "parse_stat", "parse_read"}
                 /\ ui'.cycles[k].pc = "idle"
                 /\ ui'.last.pc = "failed"]_vars

\* one cycle has reached the deletion while another has failed after its
\* download
C27_Witness ==
    /\ \E k \in Cycles : ui.cycles[k].pc = "cleanup" /\ ui.cycles[k].decoded
    /\ ui.last.pc = "failed"
    /\ ui.last.source # "none"

\* Claim C29: the status is Connected only after a transport connect and a
\* listing have succeeded: never without the transport library, and never
\* set by a cycle whose own connectivity test failed.
C29_ConnectedAfterConnectAndList ==
    /\ ui.connectionStatus = "connected" => libAvailable
    /\ \A k \in Cycles : ui.cycles[k].pc = "cleanup" => ui.cycles[k].testOk

\* the lines of a text (by the position of their first character) that hold
\* a character other than white space
NonBlankLines(text) ==
    LET starts == {1} \cup {i + 1 : i \in {j \in 1..Len(text) : text[j] = "\n"}}
        stop(s) == IF \E j \in s..Len(text) : text[j] = "\n"
                   THEN CHOOSE j \in s..Len(text) :
                            /\ text[j] = "\n"
                            /\ \A i \in s..(j - 1) : text[i] # "\n"
                   ELSE Len(text) + 1
    IN {s \in starts : \E j \in s..(stop(s) - 1) : text[j] \notin Whitespace}

NonBlankLineCount == [file \in Files |-> Cardinality(NonBlankLines(CsvTexts[file]))]

\* no white space at either end
Trimmed(cell) ==
    cell = <<>> \/ (cell[1] \notin Whitespace /\ cell[Len(cell)] \notin Whitespace)

\* Claim C36: a parse result with fewer than 2 rows never produces a chart
\* model: the cycle that decoded it fails and the displayed chart, pie and
\* table stay as they were; and the rows of the delimited-text fallback are
\* the lines that are not blank, every cell without white space at its ends.
C36_ShortGridNeverCharted ==
    [][ui'.parsed.cycle # 0 =>
          LET p == ui'.parsed
              rawData == Parsed[p.xlsxOk][p.file]
              rows == CsvRows[p.file]
          IN /\ ~p.xlsxOk =>
                    /\ Len(rawData) = NonBlankLineCount[p.file]
                    /\ \A i \in 1..Len(rows) : \A j \in 1..Len(rows[i]) :
                           Trimmed(rows[i][j])
             /\ Len(rawData) < 2 =>
                    /\ ui'.last.pc = "failed"
                    /\ ui'.cycles[p.cycle].pc = "idle"
                    /\ Displayed(ui') = Displayed(ui)]_vars

\* a cycle decoded, by the fallback, a text of a header line and a blank
\* line and failed, under the chart of an earlier cycle
C36_Witness ==
    /\ ui.parsed.cycle # 0
    /\ ~ui.parsed.xlsxOk
    /\ CsvTexts[ui.parsed.file] = <<"m", ",", "s", "\n", " ", "\n">>
    /\ ui.last.pc = "failed"
    /\ ui.chartData # 0

\* Claim C37: when the deletion of the temporary file fails after the file
\* was processed, the cycle ends as a successful one: the status it set
\* (Connected) stays, the consecutive-failure counter is not incremented, no
\* alert is shown and the chart model it displayed stays displayed.
C37_CleanupFailureNotEscalated ==
    [][\A k \in Cycles :
          (ui.cycles[k].pc = "cleanup" /\ ui'.cycles[k] # ui.cycles[k]
              /\ ui'.last.deleteFailed) =>
              /\ ui'.last.pc = "done"
              /\ ui'.connectionStatus = ui.connectionStatus
              /\ ui'.retryCount = ui.retryCount
              /\ ui'.failures = 0
              /\ ~ui'.last.alerted
              /\ Displayed(ui') = Displayed(ui)]_vars

\* a cycle has ended after its deleteAsync failed, its chart on display and
\* the status Connected
C37_Witness ==
    /\ ui.last.deleteFailed
    /\ ui.last.pc = "done"
    /\ ui.connectionStatus = "connected"
    /\ ui.retryCount = 0
    /\ ui.chartData # 0

\* Claim C38: a cycle that downloaded a file has attempted to delete it by
\* the time it ends (deleteAsync is called on the way to the end "done"
\* only), also when it fails while parsing or building the series.
C38_NoFileOutlivesCycle ==
    (ui.last.pc \in {"failed", "done"} /\ ui.last.source # "none") =>
        ui.last.pc = "done"

----------------------------------------------------------------------------
(* Claims about the log queue *)

\* Claim C22: in every state between two asynchronous steps the queue holds
\* at most maxQueueSize (100) entries, whatever the interleaving of log
\* calls, timer flushes and error-triggered flushes.
C22_QueueWithinCapacity == Len(logger.logQueue) <= maxQueueSize

\* more events were appended than the queue can hold, and it is full
C22_Witness ==
    /\ Len(logger.appended) > maxQueueSize
    /\ Len(logger.logQueue) = maxQueueSize
    /\ \E c \in LogCalls : logger.calls[c].pc # "idle"

\* Claim C23: when N events were appended since the queue was last drained,
\* the queue holds exactly the last min(N, 100) of them, in the order in
\* which they were appended.
C23_KeepsMostRecent ==
    LET N == Len(logger.appended)
        kept == Len(logger.logQueue)
    IN /\ kept = Min(N, maxQueueSize)
       /\ \A i \in 1..kept : logger.logQueue[i] = logger.appended[N - kept + i]

\* the oldest appended event was dropped
C23_Witness ==
    /\ Len(logger.appended) > maxQueueSize
    /\ logger.logQueue[1] # logger.appended[1]
    /\ logger.logQueue[maxQueueSize] = logger.appended[Len(logger.appended)]

InFlushBy(c) == {f \in logger.flushes : f.by = c}
Entries(q) == {q[i] : i \in 1..Len(q)}

\* Claim C24: an error event that passes the threshold is flushed by its own
\* log call: from the step that appends it, the event is out of the queue
\* and in the batch handed to sendToRemoteService, and the call completes
\* only when that flush has settled.
C24_ErrorFlushedInCall ==
    /\ \A c \in LogCalls :
          logger.calls[c].level = "error" /\ logger.calls[c].pc \notin {"writeToConsole", "writeToFile"} =>
             /\ logger.calls[c].pc = "flush"
             /\ \E f \in InFlushBy(c) : logger.calls[c].entry \in Entries(f.logsToFlush)
             /\ logger.calls[c].entry \notin Entries(logger.logQueue)
    /\ logger.last.level = "error" /\ logger.last.outcome # "filtered" =>
          /\ logger.last.outcome = "flushed"
          /\ logger.last.entry \in Entries(logger.last.handed)

\* an error call has completed, its event handed over with earlier ones
C24_Witness ==
    /\ logger.last.level = "error"
    /\ logger.last.outcome = "flushed"
    /\ Len(logger.last.handed) > 1

\* Claim C25: when forwarding a drained batch fails, the most recent events
\* of the batch, at most maxQueueSize / 2 = 50 of them, are put back into the
\* queue, so that the batch is not lost entirely.
C25_FailedBatchRequeued ==
    logger.settled.forwarding = "failed" =>
        /\ logger.settled.requeued = slice(logger.settled.logsToFlush, maxQueueSize \div 2)
        /\ logger.settled.requeued # <<>>

\* Claim C34: the events in the queue are in the order in which their log
\* calls were made (an entry is the ordinal of its creation), whatever the
\* order in which the console and file writes of the calls settle.
C34_QueueInCallOrder ==
    \A i, j \in 1..Len(logger.logQueue) :
        i < j => logger.logQueue[i] < logger.logQueue[j]

HandedOver == UNION {Entries(f.logsToFlush) : f \in logger.flushes}

\* event e is in no batch that is with sendToRemoteService, nor in the batch
\* it settled last
Unhanded(e) ==
    /\ \A f \in logger.flushes :
          \A i \in 1..Len(f.logsToFlush) : f.logsToFlush[i] # e
    /\ \A i \in 1..Len(logger.settled.logsToFlush) : logger.settled.logsToFlush[i] # e

C39_ChainEnds == logger.chain < MaxChain

----------------------------------------------------------------------------
(* Claims about the stored credentials *)

\* Claim C28: loadCredentials after saveCredentials, both store operations
\* succeeding and nothing else written in between, returns a config whose
\* host, port, username, password and filename equal those of the client's
\* config at the time of the save.
C28_CredentialsRoundTrip ==
    (applied.f = "credentials" /\ applied.pc = "loaded" /\ applied.readOk) =>
        /\ applied.loaded # Null
        /\ \A i \in 1..Len(CredentialFields) :
              /\ KeyChars(CredentialFields[i]) \in DOMAIN applied.loaded
              /\ applied.loaded[KeyChars(CredentialFields[i])] =
                    applied.saved[CredentialFields[i]]

\* a config with quotes, backslashes and line feeds came back, after the
\* client's config had been replaced
C28_Witness ==
    /\ applied.f = "credentials" /\ applied.pc = "loaded" /\ applied.readOk
    /\ applied.saved["password"] = <<"a", "\"", "\\">>
    /\ applied.saved["host"] = <<"\n", ",", "}">>
    /\ applied.saved["port"] = <<>>
    /\ applied.config # applied.saved
    /\ applied.platform = "web"

====
